---- MODULE Spec2Model ----
(***************************************************************************)
(* Model of the change-generation and application pipeline of              *)
(* llm-pr-assistant: runGeneratePrompt, runPlanExecute and the fallback    *)
(* cascade of applyPatchFromClaude (src/src/extension.ts), with the git    *)
(* helpers of git.ts and the context builder of context.ts                 *)
(* (src/unnamed/part_001).                                                 *)
(*                                                                         *)
(* A text is the sequence of its lines in the sense of split("\n"): the    *)
(* empty string is <<Blank>> and a text that ends with a newline has       *)
(* Blank as its last line.  A line is a record [k, path, b, arg]; a path   *)
(* string is a record [pre, name] ("a/f1" is pre "a/" and name "f1").      *)
(* Step labels are numbers: 0 is "single-shot", i is "step-<i>".           *)
(***************************************************************************)
EXTENDS Integers, Sequences, FiniteSets, TLC

\* ------------------------------------------------------------------ bounds
\* the longest plan of a run whose steps are followed strategy by strategy
MaxPlan == 2
\* the longest plan of a run whose steps are taken whole
MaxLongPlan == 9
\* the most lines git status prints
MaxStatusLines == 2
\* the most entries of the JSON array of a planning response
MaxPlanItems == 2
\* the longest plan generated after a failed single-shot attempt in FairSpec
MaxFallbackPlan == 1
\* the runs started against one working tree
MaxRuns == 2
\* calls of startQdrant, and of ensureQdrantBinary, in one behaviour
MaxCalls == 2

Files == {"f1", "f2"}

\* ------------------------------------------------------------- text lines
P(pre, name) == [pre |-> pre, name |-> name]
NoPath == P("", "")
DevNull == P("", "/dev/null")

Line(k, path, b, arg) == [k |-> k, path |-> path, b |-> b, arg |-> arg]
Blank == Line("blank", NoPath, NoPath, "")
Prose == Line("text", NoPath, NoPath, "")
\* "diff --git a/<a> b/<b>"
GitLine(a, b) == Line("git", a, b, "")
NewMode == Line("newmode", NoPath, NoPath, "")
DelMode == Line("delmode", NoPath, NoPath, "")
\* "--- <path>" and "+++ <path>"
OldLine(path) == Line("old", path, NoPath, "")
NewLine(path) == Line("new", path, NoPath, "")
\* "@@ -<arg> +1 @@": arg "0,0" is the empty old range
Hunk(arg) == Line("hunk", NoPath, NoPath, arg)
\* "+<arg>", "-..." and " ..."
Add(arg) == Line("add", NoPath, NoPath, arg)
Del == Line("del", NoPath, NoPath, "")
Fence == Line("fence", NoPath, NoPath, "")

EmptyText == <<Blank>>
NoFile == <<>>
Null == <<>>

Last(s) == s[Len(s)]

\* lines.findIndex(test) over the test's answers, 0 when no line passes
FirstIndex(passes) ==
  IF \E i \in 1..Len(passes) : passes[i]
  THEN CHOOSE i \in 1..Len(passes) :
         passes[i] /\ \A j \in 1..(i - 1) : ~passes[j]
  ELSE 0

IsGit(l) == l.k = "git"
IsOld(l) == l.k = "old"
IsNew(l) == l.k = "new"
\* /^\+\+\+\s+b\/(.+)$/
IsPlusB(l) == l.k = "new" /\ l.path.pre = "b/" /\ l.path.name # ""

Strip(prefix, path) == IF path.pre = prefix THEN P("", path.name) ELSE path

\* patch.includes(...)
IncludesDiffGit(t) == \E i \in 1..Len(t) : t[i].k = "git"
IncludesOldMarker(t) == \E i \in 1..Len(t) : t[i].k = "old"
IncludesDevNull(t) ==
  \E i \in 1..Len(t) : t[i].k \in {"old", "new"} /\ t[i].path = DevNull
IncludesNewFileMode(t) == \E i \in 1..Len(t) : t[i].k = "newmode"
IncludesOldDevNull(t) ==
  \E i \in 1..Len(t) : t[i].k = "old" /\ t[i].path = DevNull

\* text.trim() is empty
TrimEmpty(t) == \A i \in 1..Len(t) : t[i].k = "blank"

ensureTrailingNewline_AsIs(patch) == patch

ensureTrailingNewline(patch) ==
  IF patch = EmptyText THEN patch
  ELSE IF Len(patch) >= 2 /\ Last(patch) = Blank THEN patch
  ELSE Append(patch, Blank)

ensureDiffGitHeader_AsIs(patch) == patch

ensureDiffGitHeader(patch) ==
  IF IncludesDiffGit(patch) THEN patch
  ELSE
    LET oldIndex == FirstIndex([k \in 1..Len(patch) |-> IsOld(patch[k])])
        newIndex == FirstIndex([k \in 1..Len(patch) |-> IsNew(patch[k])])
    IN IF oldIndex = 0 \/ newIndex = 0 THEN patch
       ELSE
         LET oldPath == patch[oldIndex].path
             newPath == patch[newIndex].path
             cleanOld == Strip("a/", oldPath)
             cleanNew == Strip("b/", newPath)
             aPath == IF oldPath = DevNull THEN cleanNew ELSE cleanOld
             bPath == IF newPath = DevNull THEN cleanOld ELSE cleanNew
             header == <<GitLine(aPath, bPath)>> \o
                       (IF oldPath = DevNull THEN <<NewMode>>
                        ELSE IF newPath = DevNull THEN <<DelMode>>
                        ELSE <<>>)
         IN header \o patch

isUnifiedDiff(text) ==
  IF text = EmptyText THEN FALSE
  ELSE IncludesDiffGit(text) \/ IncludesOldMarker(text)

extractPrimaryFilePath(patch) ==
  LET plus == FirstIndex([k \in 1..Len(patch) |-> IsPlusB(patch[k])])
      diff == FirstIndex([k \in 1..Len(patch) |-> IsGit(patch[k])])
  IN IF plus # 0 THEN P("", patch[plus].path.name)
     ELSE IF diff # 0 /\ patch[diff].b # NoPath THEN patch[diff].b
     ELSE NoPath

isNewFilePatch(patch) ==
  \/ IncludesOldDevNull(patch)
  \/ \E i \in 1..Len(patch) : patch[i].k = "hunk" /\ patch[i].arg = "0,0"

RECURSIVE CollectAdded(_, _)
CollectAdded(lines, inHunk) ==
  IF lines = <<>> THEN <<>>
  ELSE LET l == Head(lines) IN
    IF l.k = "hunk" THEN CollectAdded(Tail(lines), TRUE)
    ELSE IF ~inHunk THEN CollectAdded(Tail(lines), FALSE)
    ELSE IF l.k = "new" THEN CollectAdded(Tail(lines), TRUE)
    ELSE IF l.k = "add" THEN <<l.arg>> \o CollectAdded(Tail(lines), TRUE)
    ELSE CollectAdded(Tail(lines), TRUE)

\* the payloads of the added lines, Null when there is none
extractNewFileContentFromPatch(patch) ==
  IF ~isNewFilePatch(patch) THEN Null
  ELSE CollectAdded(patch, FALSE)

\* if (contentFromPatch): a non-empty joined string
Truthy(content) == content # Null /\ content # <<"">>

\* stripCodeFences: the backticks of every paired fence are removed
RECURSIVE StripFences(_, _)
StripFences(lines, open) ==
  IF lines = <<>> THEN <<>>
  ELSE IF Head(lines).k # "fence"
       THEN <<Head(lines)>> \o StripFences(Tail(lines), open)
  ELSE IF open THEN <<Blank>> \o StripFences(Tail(lines), FALSE)
  ELSE IF \E i \in 1..Len(Tail(lines)) : Tail(lines)[i].k = "fence"
       THEN <<Blank>> \o StripFences(Tail(lines), TRUE)
  ELSE <<Head(lines)>> \o StripFences(Tail(lines), FALSE)

stripCodeFences(text) == StripFences(text, FALSE)

\* text.trim(): the white space before the first and after the last line
\* that holds something is dropped
TrimText(text) ==
  LET full == {k \in 1..Len(text) : text[k] # Blank} IN
  IF full = {} THEN EmptyText
  ELSE SubSeq(text, CHOOSE k \in full : \A j \in full : k <= j,
                    CHOOSE k \in full : \A j \in full : j <= k)

\* what generatePatchWithClaude returns for the text of the response
extractUnifiedDiff(raw) ==
  LET cleaned == TrimText(stripCodeFences(raw))
      diffIndex == FirstIndex([k \in 1..Len(cleaned) |-> IsGit(cleaned[k])])
      altIndex == FirstIndex([k \in 1..Len(cleaned) |-> IsOld(cleaned[k])])
  IN IF diffIndex # 0
     THEN TrimText(SubSeq(cleaned, diffIndex, Len(cleaned)))
     ELSE IF altIndex # 0
     THEN TrimText(SubSeq(cleaned, altIndex, Len(cleaned)))
     ELSE cleaned

\* ------------------------------------------------------------ working tree
\* tree[f] is the state of file f: missing, orig (as checked out), written
\* by the step with label by, or left with conflict markers by that step.
Missing == [st |-> "missing", by |-> 0]
Orig == [st |-> "orig", by |-> 0]
Written(label) == [st |-> "written", by |-> label]
Conflicted(label) == [st |-> "conflict", by |-> label]

InTree(path) == path.pre = "" /\ path.name \in Files

\* fs.stat(path.join(repoRoot, filePath)) succeeds
Exists(t, path) == InTree(path) /\ t[path.name].st # "missing"

isMissingFile(t, path) == ~Exists(t, path)

WriteFile(t, path, label) ==
  IF InTree(path) THEN [t EXCEPT ![path.name] = Written(label)] ELSE t

normalizePatchForNewFile(patch, t) ==
  LET filePath == extractPrimaryFilePath(patch) IN
  IF filePath = NoPath THEN patch
  ELSE IF Exists(t, filePath) THEN patch
  ELSE IF IncludesDevNull(patch) THEN patch
  ELSE
    LET mapped == [i \in 1..Len(patch) |->
                     IF patch[i].k = "old" /\ patch[i].path.pre = "a/"
                     THEN OldLine(DevNull) ELSE patch[i]]
        rewritten == IF mapped[1].k = "git"
                     THEN <<mapped[1], NewMode>> \o Tail(mapped)
                     ELSE mapped
    IN ensureTrailingNewline(rewritten)

\* the normalization of a generated patch against the working tree t
Normalize(patch, t) ==
  normalizePatchForNewFile(ensureTrailingNewline(ensureDiffGitHeader(patch)), t)

rewriteNewFilePatchForExistingFile(patch, t) ==
  LET plus == FirstIndex([k \in 1..Len(patch) |-> IsPlusB(patch[k])])
      filePath == P("", patch[plus].path.name)
  IN
  IF ~IncludesNewFileMode(patch) THEN Null
  ELSE IF plus = 0 THEN Null
  ELSE IF ~Exists(t, filePath) THEN Null
  ELSE
    LET kept == SelectSeq(patch, LAMBDA l : l # NewMode)
        mapped == [i \in 1..Len(kept) |->
                     IF kept[i].k = "old" /\ kept[i].path = DevNull
                     THEN OldLine(P("a/", filePath.name)) ELSE kept[i]]
    IN ensureTrailingNewline(mapped)

\* The file a git apply of the patch touches, and what a clean apply does
\* to it: the b side of the header, removed when the new side is /dev/null.
GitTarget(patch) ==
  LET diff == FirstIndex([k \in 1..Len(patch) |-> IsGit(patch[k])]) IN
  IF diff = 0 THEN NoPath ELSE patch[diff].b

IsDeletion(patch) ==
  \E i \in 1..Len(patch) : patch[i].k = "new" /\ patch[i].path = DevNull

ApplyEffect(t, patch, label) ==
  LET target == GitTarget(patch) IN
  IF ~InTree(target) THEN t
  ELSE IF IsDeletion(patch) THEN [t EXCEPT ![target.name] = Missing]
  ELSE [t EXCEPT ![target.name] = Written(label)]

ConflictEffect(t, patch, label) ==
  LET target == GitTarget(patch) IN
  IF Exists(t, target) THEN [t EXCEPT ![target.name] = Conflicted(label)]
  ELSE t

\* ------------------------------------------------------------------ errors
\* An error is its message: msg, the git command of a runGit failure, and,
\* for the terminal error of the cascade, the artifact path and the two
\* bundled error texts.
Err(msg, cmd) ==
  [msg |-> msg, cmd |-> cmd, path |-> <<>>, details |-> <<>>, threeWay |-> <<>>]
NoError == Err("", "")
NotAPatch == Err("Model response was not a patch.", "")
GitError(cmd) == Err("Git command failed: git", cmd)
GenError == Err("generation request failed", "")
FsError == Err("filesystem write failed", "")
PlanError == Err("Failed to generate execution plan.", "")
DirtyError == Err("Working tree is not clean. Commit or stash changes first.", "")
ErrText(e) == <<e.msg, e.cmd>>
InvalidPatch(label, directDetails, threeWayText) ==
  [msg |-> "The model returned an invalid patch.", cmd |-> "",
   path |-> <<label>>, details |-> directDetails, threeWay |-> threeWayText]

Fragments(e) ==
  {e.msg} \cup {e.details[k] : k \in 1..Len(e.details)}
          \cup {e.threeWay[k] : k \in 1..Len(e.threeWay)}

shouldFallbackToPlan_Any(e) == TRUE

shouldFallbackToPlan(e) ==
  \/ "Model response was not a patch." \in Fragments(e)
  \/ "The model returned an invalid patch." \in Fragments(e)

\* -------------------------------------------------------------- git status
\* A string whose characters matter is the sequence of its characters.
RECURSIVE TrimStart(_)
TrimStart(s) == IF s # <<>> /\ Head(s) = " " THEN TrimStart(Tail(s)) ELSE s

RECURSIVE TrimEnd(_)
TrimEnd(s) ==
  IF s # <<>> /\ Last(s) = " " THEN TrimEnd(SubSeq(s, 1, Len(s) - 1)) ELSE s

TrimStr(s) == TrimEnd(TrimStart(s))

StartsWith(s, prefix) ==
  Len(s) >= Len(prefix) /\ SubSeq(s, 1, Len(prefix)) = prefix

\* ".vscode/"
VsDir == <<".", "v", "s", "c", "o", "d", "e", "/">>

\* What git status --porcelain prints is a sequence of entries [code, path],
\* one line "XY path" each: " M" changed in the working tree, "M " staged,
\* "??" untracked; the paths ".vscode/s", "a", "src/a" and "x.vscode/s".
StatusCodes == {<<" ", "M">>, <<"M", " ">>, <<"?", "?">>}
StatusPaths ==
  { VsDir \o <<"s">>, <<"a">>, <<"s", "r", "c", "/", "a">>,
    <<"x">> \o VsDir \o <<"s">> }
StatusOutputs ==
  UNION { [1..n -> [code : StatusCodes, path : StatusPaths]] :
            n \in 0..MaxStatusLines }

Porcelain(entries) ==
  [k \in 1..Len(entries) |-> entries[k].code \o <<" ">> \o entries[k].path]

\* runGit returns stdout.trim(): the lines of stdout, the first without its
\* leading and the last without its trailing white space
runGit(stdout) ==
  IF stdout = <<>> THEN <<>>
  ELSE IF Len(stdout) = 1 THEN <<TrimStr(stdout[1])>>
  ELSE <<TrimStart(stdout[1])>> \o SubSeq(stdout, 2, Len(stdout) - 1)
         \o <<TrimEnd(Last(stdout))>>

\* the three tests of the code come to filePath.startsWith(".vscode/")
isIgnoredDirtyPath(statusLine) ==
  IF Len(statusLine) < 4 THEN FALSE
  ELSE LET filePath == TrimStr(SubSeq(statusLine, 4, Len(statusLine)))
       IN StartsWith(filePath, VsDir)

\* TRUE when ensureClean throws the 'not clean' error
ensureClean(stdout) ==
  LET status == runGit(stdout)
      dirty == SelectSeq(status,
                         LAMBDA line : line # <<>> /\ ~isIgnoredDirtyPath(line))
  IN Len(dirty) > 0

\* ---------------------------------------------------------- requested count
\* the keys of map in the order of Object.keys, each with its value
NumberWords ==
  << [word |-> <<"o", "n", "e">>, value |-> 1],
     [word |-> <<"t", "w", "o">>, value |-> 2],
     [word |-> <<"t", "h", "r", "e", "e">>, value |-> 3],
     [word |-> <<"f", "o", "u", "r">>, value |-> 4],
     [word |-> <<"f", "i", "v", "e">>, value |-> 5],
     [word |-> <<"s", "i", "x">>, value |-> 6],
     [word |-> <<"s", "e", "v", "e", "n">>, value |-> 7],
     [word |-> <<"e", "i", "g", "h", "t">>, value |-> 8],
     [word |-> <<"n", "i", "n", "e">>, value |-> 9],
     [word |-> <<"t", "e", "n">>, value |-> 10],
     [word |-> <<"e", "l", "e", "v", "e", "n">>, value |-> 11],
     [word |-> <<"t", "w", "e", "l", "v", "e">>, value |-> 12],
     [word |-> <<"t", "h", "i", "r", "t", "e", "e", "n">>, value |-> 13],
     [word |-> <<"f", "o", "u", "r", "t", "e", "e", "n">>, value |-> 14],
     [word |-> <<"f", "i", "f", "t", "e", "e", "n">>, value |-> 15],
     [word |-> <<"s", "i", "x", "t", "e", "e", "n">>, value |-> 16],
     [word |-> <<"s", "e", "v", "e", "n", "t", "e", "e", "n">>, value |-> 17],
     [word |-> <<"e", "i", "g", "h", "t", "e", "e", "n">>, value |-> 18],
     [word |-> <<"n", "i", "n", "e", "t", "e", "e", "n">>, value |-> 19],
     [word |-> <<"t", "w", "e", "n", "t", "y">>, value |-> 20],
     [word |-> <<"t", "h", "i", "r", "t", "y">>, value |-> 30],
     [word |-> <<"f", "o", "r", "t", "y">>, value |-> 40],
     [word |-> <<"f", "i", "f", "t", "y">>, value |-> 50] >>

LowerLetters ==
  { "a", "b", "c", "d", "e", "f", "g", "h", "i", "j", "k", "l", "m", "n",
    "o", "p", "q", "r", "s", "t", "u", "v", "w", "x", "y", "z" }
DigitChars == <<"0", "1", "2", "3", "4", "5", "6", "7", "8", "9">>
IsDigit(c) == \E k \in 1..10 : DigitChars[k] = c

\* the maximal runs of text made of the characters of keep, cur being the
\* run that is open
RECURSIVE Runs(_, _, _)
Runs(text, keep, cur) ==
  LET closed == IF cur = <<>> THEN <<>> ELSE <<cur>> IN
  IF text = <<>> THEN closed
  ELSE IF Head(text) \in keep
       THEN Runs(Tail(text), keep, Append(cur, Head(text)))
  ELSE closed \o Runs(Tail(text), keep, <<>>)

\* Number(value) of a run of digits
RECURSIVE Number(_)
Number(value) ==
  IF value = <<>> THEN 0
  ELSE 10 * Number(SubSeq(value, 1, Len(value) - 1))
       + (CHOOSE d \in 0..9 : DigitChars[d + 1] = Last(value))

\* map[key] of a key of the literal, 0 for a key the literal does not have
MapGet(key) ==
  IF \E k \in 1..Len(NumberWords) : NumberWords[k].word = key
  THEN NumberWords[CHOOSE k \in 1..Len(NumberWords) :
                     NumberWords[k].word = key].value
  ELSE 0

\* The literal map inherits from Object.prototype: map["constructor"] is
\* the function Object, which is neither null nor undefined. It is the one
\* inherited name a token of lower-case letters and hyphens can spell.
Constructor ==
  <<"c", "o", "n", "s", "t", "r", "u", "c", "t", "o", "r">>
Inherits(key) == key = Constructor

\* NaN, what Math.max returns when an argument is not a number; it is below
\* every threshold of classifyTaskSizing, as NaN >= n is false
NaN == 0 - 1

SetMax(S) == IF S = {} THEN 0 ELSE CHOOSE m \in S : \A n \in S : n <= m
SetMin(S) == CHOOSE m \in S : \A n \in S : m <= n

\* the row next of the inner loop for the character c of a, filled up to
\* the entries given
RECURSIVE NextRow(_, _, _, _)
NextRow(prev, c, b, next) ==
  LET n == Len(next)
      cost == IF c = b[n] THEN 0 ELSE 1
  IN IF n = Len(b) + 1 THEN next
     ELSE NextRow(prev, c, b,
                  Append(next, SetMin({prev[n + 1] + 1, next[n] + 1,
                                       prev[n] + cost})))

RECURSIVE LastRow(_, _, _)
LastRow(a, b, prev) ==
  IF a = <<>> THEN prev
  ELSE LastRow(Tail(a), b, NextRow(prev, Head(a), b, <<prev[1] + 1>>))

levenshteinDistance(a, b) ==
  IF a = b THEN 0
  ELSE IF a = <<>> THEN Len(b)
  ELSE IF b = <<>> THEN Len(a)
  ELSE LastRow(a, b, [j \in 1..(Len(b) + 1) |-> j - 1])[Len(b) + 1]

\* the first key with the least distance, <<>> when that is over maxDistance
findClosestNumberWord(token, maxDistance) ==
  LET distance == [k \in 1..Len(NumberWords) |->
                     levenshteinDistance(token, NumberWords[k].word)]
      bestDistance == SetMin({distance[k] : k \in 1..Len(NumberWords)})
  IN IF bestDistance <= maxDistance
     THEN NumberWords[FirstIndex([k \in 1..Len(NumberWords) |->
                                    distance[k] = bestDistance])].word
     ELSE <<>>

\* token.split("-"): <<parts[0], parts[1]>> of a token that holds a hyphen
SplitHyphen(token) ==
  LET at == FirstIndex([k \in 1..Len(token) |-> token[k] = "-"])
      rest == SubSeq(token, at + 1, Len(token))
      to == FirstIndex([k \in 1..Len(rest) |-> rest[k] = "-"])
  IN << SubSeq(token, 1, at - 1),
        IF to = 0 THEN rest ELSE SubSeq(rest, 1, to - 1) >>

\* what the iteration i of the loop over words offers to Math.max
WordValue(words, i) ==
  LET token == words[i]
      parts == SplitHyphen(token)
      base == MapGet(parts[1])
      next == MapGet(parts[2])
      exact == MapGet(token)
      value == IF exact # 0 THEN exact
               ELSE MapGet(findClosestNumberWord(token, 2))
      after == IF i + 1 <= Len(words) THEN MapGet(words[i + 1]) ELSE 0
  IN IF (\E k \in 1..Len(token) : token[k] = "-")
        /\ (base # 0 \/ Inherits(parts[1])) /\ next # 0 /\ next < 10
     THEN IF Inherits(parts[1]) THEN NaN ELSE base + next
     ELSE IF Inherits(token) THEN NaN
     ELSE IF value >= 20 /\ value % 10 = 0 /\ after # 0 /\ after < 10
     THEN value + after
     ELSE value

\* text.match(/\b\d{1,3}\b/g)
Matches(text) ==
  LET wordChars == LowerLetters \cup {DigitChars[k] : k \in 1..10} \cup {"_"}
      runs == Runs(text, wordChars, <<>>)
  IN { runs[k] : k \in { j \in 1..Len(runs) :
         /\ Len(runs[j]) <= 3
         /\ \A n \in 1..Len(runs[j]) : IsDigit(runs[j][n]) } }

\* the words of the loop
Words(text) == Runs(text, LowerLetters \cup {"-"}, <<>>)

extractRequestedCount(text) ==
  LET words == Words(text)
      offered == {WordValue(words, i) : i \in 1..Len(words)}
  IN IF NaN \in offered THEN NaN
     ELSE SetMax({Number(value) : value \in Matches(text)} \cup offered)

\* ------------------------------------------------------------ task sizing
\* A prompt is [len, count, scope, path]: its length, the count
\* extractRequestedCount finds in it, whether it holds a broad-scope keyword
\* and the first file path extractFilePathFromPrompt finds in it.
Prompt(len, count, scope, path) ==
  [len |-> len, count |-> count, scope |-> scope, path |-> path]

Prompts ==
  { Prompt(50, 0, FALSE, NoPath),
    Prompt(50, 0, TRUE, P("", "f1")),
    Prompt(700, 20, TRUE, NoPath) }

ContextSizes == {1000, 250000}

\* the lengths and counts on both sides of every threshold
PromptLengths == {50, 300, 301, 600, 601, 900}
RequestedCounts == {0, 3, 4, 7, 8, 19, 20, 25}
ContextLengths == {1000, 100000, 100001, 200000, 200001}

classifyTaskSizing_LowBand(prompt, contextSize) ==
  LET s1 == IF prompt.len > 600 THEN 2 ELSE IF prompt.len > 300 THEN 1 ELSE 0
      s2 == IF contextSize > 200000 THEN 2
            ELSE IF contextSize > 100000 THEN 1 ELSE 0
      s3 == IF prompt.count >= 20 THEN 3
            ELSE IF prompt.count >= 8 THEN 2
            ELSE IF prompt.count >= 4 THEN 1 ELSE 0
      s4 == IF prompt.scope THEN 1 ELSE 0
      score == s1 + s2 + s3 + s4
  IN IF score >= 5 THEN "TIER_3"
     ELSE IF score >= 3 THEN "TIER_2"
     ELSE "TIER_1"

classifyTaskSizing_ScopeAlways(prompt, contextSize) ==
  LET s1 == IF prompt.len > 600 THEN 2 ELSE IF prompt.len > 300 THEN 1 ELSE 0
      s2 == IF contextSize > 200000 THEN 2
            ELSE IF contextSize > 100000 THEN 1 ELSE 0
      s3 == IF prompt.count >= 20 THEN 3
            ELSE IF prompt.count >= 8 THEN 2
            ELSE IF prompt.count >= 4 THEN 2 ELSE 0
      score == s1 + s2 + s3 + 1
  IN IF score >= 5 THEN "TIER_3"
     ELSE IF score >= 3 THEN "TIER_2"
     ELSE "TIER_1"

classifyTaskSizing_CountDip(prompt, contextSize) ==
  LET s1 == IF prompt.len > 600 THEN 2 ELSE IF prompt.len > 300 THEN 1 ELSE 0
      s2 == IF contextSize > 200000 THEN 2
            ELSE IF contextSize > 100000 THEN 1 ELSE 0
      s3 == IF prompt.count >= 20 THEN 3
            ELSE IF prompt.count >= 8 THEN 0
            ELSE IF prompt.count >= 4 THEN 2 ELSE 0
      s4 == IF prompt.scope THEN 1 ELSE 0
      score == s1 + s2 + s3 + s4
  IN IF score >= 5 THEN "TIER_3"
     ELSE IF score >= 3 THEN "TIER_2"
     ELSE "TIER_1"

classifyTaskSizing(prompt, contextSize) ==
  LET s1 == IF prompt.len > 600 THEN 2 ELSE IF prompt.len > 300 THEN 1 ELSE 0
      s2 == IF contextSize > 200000 THEN 2
            ELSE IF contextSize > 100000 THEN 1 ELSE 0
      s3 == IF prompt.count >= 20 THEN 3
            ELSE IF prompt.count >= 8 THEN 2
            ELSE IF prompt.count >= 4 THEN 2 ELSE 0
      s4 == IF prompt.scope THEN 1 ELSE 0
      score == s1 + s2 + s3 + s4
  IN IF score >= 5 THEN "TIER_3"
     ELSE IF score >= 3 THEN "TIER_2"
     ELSE "TIER_1"

\* if (executionTier === "TIER_1") single-shot, else runPlanExecute
dispatch(tier) == IF tier = "TIER_1" THEN "single" ELSE "plan"

\* ------------------------------------------------------- model responses
\* What generatePatchWithClaude can return (extractUnifiedDiff has trimmed
\* it): nothing, prose, and diffs of the shapes the cascade tells apart.
BarePatch(f) ==
  << OldLine(P("a/", f)), NewLine(P("b/", f)), Hunk("1"), Del, Add("x") >>
DeleteOnlyPatch(f) ==
  << GitLine(P("", f), P("", f)), OldLine(P("a/", f)), NewLine(P("b/", f)),
     Hunk("1"), Del >>
NewFilePatch(f) ==
  << GitLine(P("", f), P("", f)), NewMode, OldLine(DevNull),
     NewLine(P("b/", f)), Hunk("0,0"), Add("x") >>
RemoveFilePatch(f) ==
  << GitLine(P("", f), P("", f)), DelMode, OldLine(P("a/", f)),
     NewLine(DevNull), Hunk("1"), Del >>
HalfPatch(f) == << OldLine(P("a/", f)) >>

Responses ==
  { EmptyText, <<Prose>>, HalfPatch("f1"),
    BarePatch("f1"), DeleteOnlyPatch("f2"),
    NewFilePatch("f1"), NewFilePatch("f2"), RemoveFilePatch("f1") }

\* Response texts as the model sends them: the above, white space alone,
\* diffs inside prose, fences and blank lines, and diffs without a header
\* whose markers name /dev/null, two files, or a path without its a/.
Headless(old, new) == << OldLine(old), NewLine(new), Hunk("0,0"), Add("x") >>

RawResponses ==
  Responses \cup
  { <<Blank, Blank>>,
    <<Blank>> \o BarePatch("f1") \o <<Blank, Blank>>,
    <<Prose, Blank>> \o NewFilePatch("f2") \o <<Blank>>,
    <<Fence>> \o BarePatch("f2") \o <<Fence, Blank>>,
    <<NewLine(P("b/", "f1")), Hunk("1"), Add("x")>>,
    Headless(P("", "f2"), P("b/", "f2")),
    Headless(DevNull, P("b/", "f2")),
    Headless(P("a/", "f1"), DevNull),
    Headless(P("a/", "f1"), P("b/", "f2")) }

\* New-file patches with more in their hunk than one added line: an empty
\* added line, a removed line, and the added line "+++ y" (payload "++ y").
NewFileWith(body) ==
  << GitLine(P("", "f2"), P("", "f2")), NewMode, OldLine(DevNull),
     NewLine(P("b/", "f2")), Hunk("0,0") >> \o body \o <<Blank>>

NewFileTexts ==
  { NewFileWith(<<Add("x")>>),
    NewFileWith(<<Add("x"), Add(""), Add("z")>>),
    NewFileWith(<<Add("")>>),
    NewFileWith(<<>>),
    NewFileWith(<<Add("x"), Del, Add("z")>>),
    NewFileWith(<<Add("x"), NewLine(P("", "y")), Add("z")>>),
    NewFileWith(<<Add("x"), Add(""), Add("")>>),
    Headless(P("a/", "f2"), P("b/", "f2")) \o <<Add("z")>>,
    BarePatch("f1") }

FileBodies == {"", "body"}

\* the text of a response to generateFileContentWithClaude
FileResponses ==
  { <<Blank>>, <<Prose>>, <<Prose, Blank>>, <<Prose, Blank, Prose>>,
    <<Blank, Prose, Blank, Blank>>, <<Fence, Prose, Fence, Blank>> }

\* content.join("\n") of the payloads of added lines, as a text
JoinLines(content) ==
  [k \in 1..Len(content) |->
     IF content[k] = "" THEN Blank
     ELSE Line("text", NoPath, NoPath, content[k])]

\* the body fs.writeFile is given by the operation op for the response
\* text, Null when op does not write
WrittenBody(op, text, t) ==
  LET patch == Normalize(extractUnifiedDiff(text), t)
      contentFromPatch == extractNewFileContentFromPatch(patch)
      stripped == TrimText(stripCodeFences(patch))
      content == TrimText(text)
  IN CASE op = "newFileWrite" ->
            IF /\ isUnifiedDiff(patch)
               /\ extractPrimaryFilePath(patch) # NoPath
               /\ isMissingFile(t, extractPrimaryFilePath(patch))
               /\ Truthy(contentFromPatch)
            THEN ensureTrailingNewline(JoinLines(contentFromPatch))
            ELSE Null
       [] op = "nonDiffWrite" ->
            IF ~isUnifiedDiff(patch) /\ ~TrimEmpty(stripped)
            THEN Append(stripped, Blank) ELSE Null
       [] OTHER ->
            IF ~TrimEmpty(content) THEN Append(content, Blank) ELSE Null

GitResults == {"ok", "validateFail", "applyFail"}
ThreeWayResults == {"ok", "fail", "conflict"}

\* ------------------------------------------------------------------ state
VARIABLES
  pc, prompt, executionTier, maxSteps, planLen, i, err,
  branch, committed, pushed, prCreated, planCalls,
  contextText,
  tree, index, artifact,
  cpc, stepLabel, allowEmpty, stepPrompt, tree0, usedContext,
  normalizedPatch, details, threeWayDetails, oracle,
  hist, applied, attempted, genCalls, outcome, cerr,
  call, ret,
  runPc, status, wrote,
  pollPc, now, deadline, interval, response, respondedAt, pollResult,
  qdrantProcess, proc, startPc, downloadPromise, download, ensurePc, got

rvars == <<pc, prompt, executionTier, maxSteps, planLen, i, err,
           branch, committed, pushed, prCreated, planCalls>>
wvars == <<tree, index, artifact>>
cvars == <<cpc, stepLabel, allowEmpty, stepPrompt, tree0, usedContext,
           normalizedPatch, details, threeWayDetails, oracle,
           hist, applied, attempted, genCalls, outcome, cerr>>
\* the last call of a function taken on its own, and what it returned
tvars == <<runPc, status, wrote>>
pvars == <<pollPc, now, deadline, interval, response, respondedAt,
           pollResult>>
qvars == <<qdrantProcess, proc, startPc, downloadPromise, download,
           ensurePc, got>>
fvars == <<call, ret, tvars, pvars, qvars>>
vars == <<rvars, contextText, wvars, cvars, fvars>>

Labels == 0..MaxPlan

buildContext_Stale(idx, after) == [builtAfter |-> 0, files |-> idx]

\* buildContext: the tracked-file listing (git ls-files); builtAfter counts
\* the plan steps that had finished when it was built.
buildContext(idx, after) == [builtAfter |-> after, files |-> idx]

\* The git results of one step, fixed when the direct apply fails:
\* oracle.direct is how it failed and oracle.threeWay is what
\* git apply --3way answers for the normalized patch against the working
\* tree the failed apply left untouched, whether or not it is asked.
NoOracle == [direct |-> "", threeWay |-> ""]

NoCall == [fn |-> "", arg |-> Null]

\* the runs of one extension host against one working tree: where each
\* run is, what git status prints (entries [code, path] in the order they
\* came about) and the paths each run has written
RunIds == 1..MaxRuns

\* pollForGithubToken before it is called; times are in seconds
\* rag/qdrant.ts when the module is loaded: no handle, no download; a
\* process or a download is a number from 1, 0 is null
Callers == 1..MaxCalls
NoQdrant ==
  /\ qdrantProcess = 0
  /\ proc = [p \in Callers |-> "none"]
  /\ startPc = [c \in Callers |-> "idle"]
  /\ downloadPromise = 0
  /\ download = [d \in Callers |-> "none"]
  /\ ensurePc = [c \in Callers |-> "idle"]
  /\ got = [c \in Callers |-> 0]

NoPoll ==
  /\ pollPc = "idle" /\ now = 0 /\ deadline = 0 /\ interval = 0
  /\ response = "" /\ respondedAt = 0 /\ pollResult = ""

NoRuns ==
  /\ runPc = [r \in RunIds |-> "idle"]
  /\ status = <<>>
  /\ wrote = [r \in RunIds |-> {}]

IdleCascade ==
  /\ cpc = "idle" /\ stepLabel = 0 /\ allowEmpty = FALSE
  /\ stepPrompt = NoPath /\ tree0 = tree /\ usedContext = contextText
  /\ normalizedPatch = EmptyText /\ details = <<>> /\ threeWayDetails = <<>>
  /\ oracle = NoOracle /\ hist = <<>> /\ applied = 0 /\ genCalls = 0
  /\ attempted = Null
  /\ outcome = "" /\ cerr = NoError

Init ==
  /\ pc = "clean"
  /\ prompt \in Prompts
  /\ executionTier = "" /\ maxSteps = 0 /\ planLen = 0 /\ i = 0
  /\ err = NoError
  /\ branch = FALSE /\ committed = FALSE /\ pushed = FALSE
  /\ prCreated = FALSE /\ planCalls = 0
  /\ tree = [f \in Files |-> IF f = "f1" THEN Orig ELSE Missing]
  /\ index = {"f1"}
  /\ artifact = [l \in Labels |-> NoFile]
  /\ contextText = buildContext({}, 0)
  /\ IdleCascade
  /\ call = NoCall /\ ret = Null
  /\ NoRuns
  /\ NoPoll
  /\ NoQdrant

\* --------------------------------------------------- applyPatchFromClaude
cfix == <<stepLabel, allowEmpty, stepPrompt, tree0, usedContext>>

Move(next, how, e) == cpc' = next /\ outcome' = how /\ cerr' = e
Return(how) == Move("returned", how, cerr)
Throw(e) == Move("threw", outcome, e)
Goto(next) == Move(next, outcome, cerr)
Event(e) == hist' = Append(hist, e)

safeUnlink_Keep(a, label) == a

\* safeUnlink(patchPath)
safeUnlink(a, label) == [a EXCEPT ![label] = NoFile]

primaryFile == extractPrimaryFilePath(normalizedPatch)
PrimaryMissing == primaryFile # NoPath /\ isMissingFile(tree, primaryFile)
contentFromPatch == extractNewFileContentFromPatch(normalizedPatch)
\* extractPrimaryFilePath(originalPatch) ?? extractFilePathFromPrompt(prompt)
fallbackFilePath == IF primaryFile # NoPath THEN primaryFile ELSE stepPrompt

\* git can only apply a patch that names a file of the working tree
GitCanSucceed(patch) == InTree(GitTarget(patch))

GitCmd(result) ==
  IF result = "validateFail" THEN "apply --check" ELSE "apply --whitespace=fix"

Generate ==
  /\ cpc = "generate"
  /\ genCalls' = genCalls + 1
  /\ \/ /\ Throw(GenError)
        /\ UNCHANGED normalizedPatch
     \/ \E patch \in Responses :
          /\ normalizedPatch' = Normalize(patch, tree)
          /\ Goto("respond")
  /\ UNCHANGED <<rvars, attempted, contextText, wvars, cfix, details, threeWayDetails,
                 oracle, hist, applied>>
  /\ UNCHANGED fvars

EmptyResponseWhen(allow) ==
  /\ cpc = "respond"
  /\ TrimEmpty(normalizedPatch)
  /\ IF allow THEN Return("empty") ELSE Throw(NotAPatch)
  /\ UNCHANGED <<rvars, attempted, contextText, wvars, cfix, normalizedPatch, details,
                 threeWayDetails, oracle, hist, applied, genCalls>>
  /\ UNCHANGED fvars

EmptyResponse_AlwaysAllowed == EmptyResponseWhen(TRUE)

EmptyResponse == EmptyResponseWhen(allowEmpty)

\* writeFileFromNonPatchResponse
NonDiffResponse ==
  /\ cpc = "respond"
  /\ ~TrimEmpty(normalizedPatch)
  /\ ~isUnifiedDiff(normalizedPatch)
  /\ LET content == stripCodeFences(normalizedPatch) IN
     IF TrimEmpty(content) \/ stepPrompt = NoPath
     THEN Throw(NotAPatch) /\ UNCHANGED tree
     ELSE \/ /\ tree' = WriteFile(tree, stepPrompt, stepLabel)
             /\ Return("nonDiffWrite")
          \/ Throw(FsError) /\ UNCHANGED tree
  /\ UNCHANGED <<rvars, attempted, contextText, index, artifact, cfix, normalizedPatch,
                 details, threeWayDetails, oracle, hist, applied, genCalls>>
  /\ UNCHANGED fvars

WriteArtifactWith(text) ==
  /\ cpc = "respond"
  /\ ~TrimEmpty(normalizedPatch)
  /\ isUnifiedDiff(normalizedPatch)
  /\ artifact' = [artifact EXCEPT ![stepLabel] = text]
  /\ Event("artifact")
  /\ Goto("written")
  /\ UNCHANGED <<rvars, attempted, contextText, tree, index, cfix, normalizedPatch,
                 details, threeWayDetails, oracle, applied, genCalls>>
  /\ UNCHANGED fvars

WriteArtifact_NotWritten == WriteArtifactWith(artifact[stepLabel])

WriteArtifact == WriteArtifactWith(normalizedPatch)

NewFileShortCircuit ==
  /\ cpc = "written"
  /\ PrimaryMissing
  /\ Truthy(contentFromPatch)
  /\ Event("newFile")
  /\ \/ /\ tree' = WriteFile(tree, primaryFile, stepLabel)
        /\ artifact' = safeUnlink(artifact, stepLabel)
        /\ Return("newFile")
     \/ Throw(FsError) /\ UNCHANGED <<tree, artifact>>
  /\ UNCHANGED <<rvars, attempted, contextText, index, cfix, normalizedPatch, details,
                 threeWayDetails, oracle, applied, genCalls>>
  /\ UNCHANGED fvars

createFileFromClaudeIfMissing_Always(next) ==
  IF fallbackFilePath = NoPath
  THEN Goto(next) /\ UNCHANGED <<tree, artifact, genCalls>>
  ELSE
    /\ genCalls' = genCalls + 1
    /\ \/ Throw(GenError) /\ UNCHANGED <<tree, artifact>>
       \/ \E content \in FileBodies :
            IF content = ""
            THEN Goto(next) /\ UNCHANGED <<tree, artifact>>
            ELSE \/ /\ tree' = WriteFile(tree, fallbackFilePath, stepLabel)
                    /\ artifact' = safeUnlink(artifact, stepLabel)
                    /\ Return("created")
                 \/ Throw(FsError) /\ UNCHANGED <<tree, artifact>>

\* createFileFromClaudeIfMissing, then the caller's "if (created)"
createFileFromClaudeIfMissing(next) ==
  IF fallbackFilePath = NoPath \/ Exists(tree, fallbackFilePath)
  THEN Goto(next) /\ UNCHANGED <<tree, artifact, genCalls>>
  ELSE
    /\ genCalls' = genCalls + 1
    /\ \/ Throw(GenError) /\ UNCHANGED <<tree, artifact>>
       \/ \E content \in FileBodies :
            IF content = ""
            THEN Goto(next) /\ UNCHANGED <<tree, artifact>>
            ELSE \/ /\ tree' = WriteFile(tree, fallbackFilePath, stepLabel)
                    /\ artifact' = safeUnlink(artifact, stepLabel)
                    /\ Return("created")
                 \/ Throw(FsError) /\ UNCHANGED <<tree, artifact>>

CreateMissingEarly ==
  /\ cpc = "written"
  /\ PrimaryMissing
  /\ ~Truthy(contentFromPatch)
  /\ Event("createEarly")
  /\ createFileFromClaudeIfMissing("direct")
  /\ UNCHANGED <<rvars, attempted, contextText, index, cfix, normalizedPatch, details,
                 threeWayDetails, oracle, applied>>
  /\ UNCHANGED fvars

DirectApplyThen(next) ==
  /\ \/ cpc = "written" /\ ~PrimaryMissing
     \/ cpc = "direct"
  /\ Event("direct")
  /\ \E d \in GitResults, t \in ThreeWayResults :
       /\ d = "ok" \/ t = "ok" => GitCanSucceed(normalizedPatch)
       /\ IF d = "ok"
          THEN /\ tree' = ApplyEffect(tree, normalizedPatch, stepLabel)
               /\ applied' = applied + 1
               /\ artifact' = safeUnlink(artifact, stepLabel)
               /\ Return("direct")
               /\ UNCHANGED <<details, oracle>>
          ELSE /\ details' = ErrText(GitError(GitCmd(d)))
               /\ oracle' = [direct |-> d, threeWay |-> t]
               /\ Goto(next)
               /\ UNCHANGED <<tree, applied, artifact>>
  /\ attempted' = normalizedPatch
  /\ UNCHANGED <<rvars, contextText, index, cfix, normalizedPatch,
                 threeWayDetails, genCalls>>
  /\ UNCHANGED fvars

DirectApply_SkipThreeWay == DirectApplyThen("regen")

DirectApply == DirectApplyThen("caught")

rewritten_Never == Null

rewritten == rewriteNewFilePatchForExistingFile(normalizedPatch, tree)

RewriteApply ==
  /\ cpc = "caught"
  /\ rewritten # Null
  /\ Event("rewrite")
  /\ \E g \in GitResults :
       IF g = "ok"
       THEN /\ GitCanSucceed(rewritten)
            /\ tree' = ApplyEffect(tree, rewritten, stepLabel)
            /\ applied' = applied + 1
            /\ artifact' = safeUnlink(artifact, stepLabel)
            /\ Return("rewrite")
       ELSE /\ artifact' = [artifact EXCEPT ![stepLabel] = rewritten]
            /\ Throw(GitError(GitCmd(g)))
            /\ UNCHANGED <<tree, applied>>
  /\ attempted' = rewritten
  /\ UNCHANGED <<rvars, contextText, index, cfix, normalizedPatch, details,
                 threeWayDetails, oracle, genCalls>>
  /\ UNCHANGED fvars

\* git apply --3way also records its result in the index
ThreeWayIndex(idx, patch) ==
  LET target == GitTarget(patch) IN
  IF ~InTree(target) THEN idx
  ELSE IF IsDeletion(patch) THEN idx \ {target.name}
  ELSE idx \cup {target.name}

ThreeWay ==
  /\ cpc = "caught"
  /\ rewritten = Null
  /\ Event("threeWay")
  /\ IF oracle.threeWay = "ok"
     THEN /\ tree' = ApplyEffect(tree, normalizedPatch, stepLabel)
          /\ index' = ThreeWayIndex(index, normalizedPatch)
          /\ applied' = applied + 1
          /\ artifact' = safeUnlink(artifact, stepLabel)
          /\ Return("threeWay")
          /\ UNCHANGED threeWayDetails
     ELSE /\ threeWayDetails' = ErrText(GitError("apply --3way"))
          /\ tree' = IF oracle.threeWay = "conflict"
                     THEN ConflictEffect(tree, normalizedPatch, stepLabel)
                     ELSE tree
          /\ Goto("regen")
          /\ UNCHANGED <<index, applied, artifact>>
  /\ attempted' = normalizedPatch
  /\ UNCHANGED <<rvars, contextText, cfix, normalizedPatch, details,
                 oracle, genCalls>>
  /\ UNCHANGED fvars

\* regeneratePatchWithFreshFileContext and the retry of its patch
Regenerate ==
  /\ cpc = "regen"
  /\ IF fallbackFilePath = NoPath \/ ~Exists(tree, fallbackFilePath)
     THEN /\ Goto("create")
          /\ UNCHANGED <<tree, artifact, applied, attempted, genCalls, hist>>
     ELSE
       /\ Event("regen")
       /\ genCalls' = genCalls + 1
       /\ \/ /\ Throw(GenError)
             /\ UNCHANGED <<tree, artifact, applied, attempted>>
          \/ \E retryPatch \in Responses :
               LET refreshed ==
                     ensureTrailingNewline(ensureDiffGitHeader(retryPatch))
               IN IF TrimEmpty(refreshed)
                  THEN /\ Goto("create")
                       /\ UNCHANGED <<tree, artifact, applied, attempted>>
                  ELSE \E g \in GitResults :
                         /\ attempted' = refreshed
                         /\ IF g = "ok"
                            THEN /\ GitCanSucceed(refreshed)
                                 /\ tree' =
                                      ApplyEffect(tree, refreshed, stepLabel)
                                 /\ applied' = applied + 1
                                 /\ artifact' = safeUnlink(artifact, stepLabel)
                                 /\ Return("regen")
                            ELSE /\ artifact' =
                                      [artifact EXCEPT ![stepLabel] = refreshed]
                                 /\ Goto("create")
                                 /\ UNCHANGED <<tree, applied>>
  /\ UNCHANGED <<rvars, contextText, index, cfix, normalizedPatch, details,
                 threeWayDetails, oracle>>
  /\ UNCHANGED fvars

CreateMissingLate ==
  /\ cpc = "create"
  /\ Event("create")
  /\ createFileFromClaudeIfMissing("replace")
  /\ UNCHANGED <<rvars, attempted, contextText, index, cfix, normalizedPatch, details,
                 threeWayDetails, oracle, applied>>
  /\ UNCHANGED fvars

\* replaceFileFromClaudeOnFailure, then the caller's "if (replaced)"
ReplaceFile ==
  /\ cpc = "replace"
  /\ Event("replace")
  /\ IF fallbackFilePath = NoPath \/ ~Exists(tree, fallbackFilePath)
     THEN Goto("terminal") /\ UNCHANGED <<tree, artifact, genCalls>>
     ELSE
       /\ genCalls' = genCalls + 1
       /\ \/ Throw(GenError) /\ UNCHANGED <<tree, artifact>>
          \/ \E content \in FileBodies :
               IF content = ""
               THEN Goto("terminal") /\ UNCHANGED <<tree, artifact>>
               ELSE \/ /\ tree' = WriteFile(tree, fallbackFilePath, stepLabel)
                       /\ artifact' = safeUnlink(artifact, stepLabel)
                       /\ Return("replaced")
                    \/ Throw(FsError) /\ UNCHANGED <<tree, artifact>>
  /\ UNCHANGED <<rvars, attempted, contextText, index, cfix, normalizedPatch, details,
                 threeWayDetails, oracle, applied>>
  /\ UNCHANGED fvars

TerminalFailureLeaving(a) ==
  /\ cpc = "terminal"
  /\ Event("terminal")
  /\ Throw(InvalidPatch(stepLabel, details, threeWayDetails))
  /\ artifact' = a
  /\ UNCHANGED <<rvars, attempted, contextText, tree, index, cfix,
                 normalizedPatch, details, threeWayDetails, oracle, applied,
                 genCalls>>
  /\ UNCHANGED fvars

TerminalFailure_Cleanup ==
  TerminalFailureLeaving(safeUnlink(artifact, stepLabel))

TerminalFailure == TerminalFailureLeaving(artifact)

\* ---------------------------------------- runGeneratePrompt, runPlanExecute
ResetCascade ==
  /\ cpc' = "idle" /\ stepLabel' = 0 /\ allowEmpty' = FALSE
  /\ stepPrompt' = NoPath /\ tree0' = tree' /\ usedContext' = contextText'
  /\ normalizedPatch' = EmptyText /\ details' = <<>>
  /\ threeWayDetails' = <<>> /\ oracle' = NoOracle /\ hist' = <<>>
  /\ applied' = 0 /\ genCalls' = 0 /\ outcome' = "" /\ cerr' = NoError
  /\ attempted' = Null

\* the call applyPatchFromClaude({prompt, contextText, stepLabel, allowEmpty})
BeginCascade(label, allow, promptPath) ==
  /\ cpc' = "generate" /\ stepLabel' = label /\ allowEmpty' = allow
  /\ stepPrompt' = promptPath /\ tree0' = tree /\ usedContext' = contextText
  /\ normalizedPatch' = EmptyText /\ details' = <<>>
  /\ threeWayDetails' = <<>> /\ oracle' = NoOracle /\ hist' = <<>>
  /\ applied' = 0 /\ genCalls' = 0 /\ outcome' = "" /\ cerr' = NoError
  /\ attempted' = Null

Fail(e) == pc' = "failed" /\ err' = e

EnsureCleanElse(rejected) ==
  /\ pc = "clean"
  /\ \/ \E entries \in StatusOutputs :
          IF ensureClean(Porcelain(entries))
          THEN rejected
          ELSE pc' = "branch" /\ UNCHANGED err
     \/ Fail(GitError("status --porcelain"))
  /\ UNCHANGED <<prompt, executionTier, maxSteps, planLen, i, branch,
                 committed, pushed, prCreated, planCalls, contextText,
                 wvars, cvars>>
  /\ UNCHANGED fvars

EnsureClean_Proceed ==
  EnsureCleanElse(pc' = "branch" /\ err' = DirtyError)

EnsureClean == EnsureCleanElse(Fail(DirtyError))

CreateBranch ==
  /\ pc = "branch"
  /\ \/ pc' = "context" /\ branch' = TRUE /\ UNCHANGED err
     \/ Fail(GitError("checkout -b")) /\ UNCHANGED branch
  /\ UNCHANGED <<prompt, executionTier, maxSteps, planLen, i,
                 committed, pushed, prCreated, planCalls, contextText,
                 wvars, cvars>>
  /\ UNCHANGED fvars

CollectContext ==
  /\ pc = "context"
  /\ contextText' = buildContext(index, 0)
  /\ \E size \in ContextSizes :
       executionTier' = classifyTaskSizing(prompt, size)
  /\ pc' = dispatch(executionTier')
  /\ IF executionTier' = "TIER_1"
     THEN UNCHANGED maxSteps
     ELSE maxSteps' = IF executionTier' = "TIER_3" THEN 8 ELSE 4
  /\ usedContext' = contextText'
  /\ UNCHANGED <<prompt, planLen, i, err, branch, committed, pushed,
                 prCreated, planCalls, wvars, cpc, stepLabel, allowEmpty,
                 stepPrompt, tree0, normalizedPatch, details,
                 threeWayDetails, oracle, hist, applied, attempted, genCalls,
                 outcome, cerr>>
  /\ UNCHANGED fvars

SingleShot ==
  /\ pc = "single"
  /\ pc' = "singleWait"
  /\ BeginCascade(0, FALSE, prompt.path)
  /\ UNCHANGED <<prompt, executionTier, maxSteps, planLen, i, err, branch,
                 committed, pushed, prCreated, planCalls, contextText, wvars>>
  /\ UNCHANGED fvars

SingleShotDone ==
  /\ pc = "singleWait"
  /\ cpc = "returned"
  /\ pc' = "summary"
  /\ UNCHANGED <<prompt, executionTier, maxSteps, planLen, i, err, branch,
                 committed, pushed, prCreated, planCalls, contextText, wvars>>
  /\ ResetCascade
  /\ UNCHANGED fvars

SingleShotCatch ==
  /\ pc = "singleWait"
  /\ cpc = "threw"
  /\ IF shouldFallbackToPlan(cerr)
     THEN pc' = "plan" /\ maxSteps' = 4 /\ UNCHANGED err
     ELSE Fail(cerr) /\ UNCHANGED maxSteps
  /\ UNCHANGED <<prompt, executionTier, planLen, i, branch,
                 committed, pushed, prCreated, planCalls, contextText, wvars>>
  /\ ResetCascade
  /\ UNCHANGED fvars

\* generatePlanWithClaude and the empty-plan check
GeneratePlanUpTo(longest) ==
  /\ pc = "plan"
  /\ planCalls' = planCalls + 1
  /\ \/ Fail(GenError) /\ UNCHANGED <<planLen, i>>
     \/ \E n \in 0..longest :
          IF n = 0
          THEN Fail(PlanError) /\ UNCHANGED <<planLen, i>>
          ELSE pc' = "step" /\ planLen' = n /\ i' = 1 /\ UNCHANGED err
  /\ UNCHANGED <<prompt, executionTier, maxSteps, branch, committed, pushed,
                 prCreated, contextText, wvars, cvars>>
  /\ UNCHANGED fvars

GeneratePlan == GeneratePlanUpTo(MaxPlan)

\* buildStepPrompt: the first path of the original request, else of the step
StepStart ==
  /\ pc = "step"
  /\ pc' = "stepWait"
  /\ \E stepPath \in {NoPath} \cup {P("", f) : f \in Files} :
       BeginCascade(i, TRUE,
                    IF prompt.path # NoPath THEN prompt.path ELSE stepPath)
  /\ UNCHANGED <<prompt, executionTier, maxSteps, planLen, i, err, branch,
                 committed, pushed, prCreated, planCalls, contextText, wvars>>
  /\ UNCHANGED fvars

StepRefresh_Repeat ==
  /\ pc = "stepWait"
  /\ cpc = "returned"
  /\ contextText' = buildContext(index, i)
  /\ i' = i
  /\ pc' = "step"
  /\ UNCHANGED <<prompt, executionTier, maxSteps, planLen, err, branch,
                 committed, pushed, prCreated, planCalls, wvars>>
  /\ ResetCascade
  /\ UNCHANGED fvars

\* the end of the loop body: buildContext, then i += 1 and the loop test
StepRefresh ==
  /\ pc = "stepWait"
  /\ cpc = "returned"
  /\ contextText' = buildContext(index, i)
  /\ i' = i + 1
  /\ pc' = IF i < planLen THEN "step" ELSE "summary"
  /\ UNCHANGED <<prompt, executionTier, maxSteps, planLen, err, branch,
                 committed, pushed, prCreated, planCalls, wvars>>
  /\ ResetCascade
  /\ UNCHANGED fvars

StepThrowThen(nextPc, nextI) ==
  /\ pc = "stepWait"
  /\ cpc = "threw"
  /\ pc' = nextPc /\ err' = cerr /\ i' = nextI
  /\ UNCHANGED <<prompt, executionTier, maxSteps, planLen, branch,
                 committed, pushed, prCreated, planCalls, contextText, wvars>>
  /\ ResetCascade
  /\ UNCHANGED fvars

StepThrow_Continue ==
  StepThrowThen(IF i < planLen THEN "step" ELSE "summary", i + 1)

StepThrow == StepThrowThen("failed", i)

\* commitAll: git add -A, git commit
Commit ==
  /\ pc = "summary"
  /\ \/ /\ pc' = "push" /\ committed' = TRUE
        /\ index' = {f \in Files : tree[f].st # "missing"}
        /\ UNCHANGED err
     \/ Fail(GitError("commit")) /\ UNCHANGED <<committed, index>>
  /\ tree0' = tree0
  /\ UNCHANGED <<prompt, executionTier, maxSteps, planLen, i, branch,
                 pushed, prCreated, planCalls, contextText, tree, artifact,
                 cpc, stepLabel, allowEmpty, stepPrompt, usedContext,
                 normalizedPatch, details, threeWayDetails, oracle, hist,
                 applied, attempted, genCalls, outcome, cerr>>
  /\ UNCHANGED fvars

Push ==
  /\ pc = "push"
  /\ \/ pc' = "pr" /\ pushed' = TRUE /\ UNCHANGED err
     \/ Fail(GitError("push")) /\ UNCHANGED pushed
  /\ UNCHANGED <<prompt, executionTier, maxSteps, planLen, i, branch,
                 committed, prCreated, planCalls, contextText, wvars, cvars>>
  /\ UNCHANGED fvars

CreatePullRequest ==
  /\ pc = "pr"
  /\ \/ pc' = "done" /\ prCreated' = TRUE /\ UNCHANGED err
     \/ Fail(Err("pull request creation failed", "")) /\ UNCHANGED prCreated
  /\ UNCHANGED <<prompt, executionTier, maxSteps, planLen, i, branch,
                 committed, pushed, planCalls, contextText, wvars, cvars>>
  /\ UNCHANGED fvars

Next ==
  \/ EnsureClean \/ CreateBranch \/ CollectContext
  \/ SingleShot \/ SingleShotDone \/ SingleShotCatch
  \/ GeneratePlan \/ StepStart \/ StepRefresh \/ StepThrow
  \/ Commit \/ Push \/ CreatePullRequest
  \/ Generate \/ EmptyResponse \/ NonDiffResponse \/ WriteArtifact
  \/ NewFileShortCircuit \/ CreateMissingEarly \/ DirectApply
  \/ RewriteApply \/ ThreeWay \/ Regenerate \/ CreateMissingLate
  \/ ReplaceFile \/ TerminalFailure

Spec == Init /\ [][Next]_vars

\* The run when every awaited call (generation, git, file system, GitHub)
\* returns or fails: each step of the run is then taken in the end.
FairGeneratePlan ==
  GeneratePlanUpTo(IF executionTier = "TIER_1" THEN MaxFallbackPlan
                   ELSE MaxPlan)

FairNext ==
  \/ EnsureClean \/ CreateBranch \/ CollectContext
  \/ SingleShot \/ SingleShotDone \/ SingleShotCatch
  \/ FairGeneratePlan \/ StepStart \/ StepRefresh \/ StepThrow
  \/ Commit \/ Push \/ CreatePullRequest
  \/ Generate \/ EmptyResponse \/ NonDiffResponse \/ WriteArtifact
  \/ NewFileShortCircuit \/ CreateMissingEarly \/ DirectApply
  \/ RewriteApply \/ ThreeWay \/ Regenerate \/ CreateMissingLate
  \/ ReplaceFile \/ TerminalFailure

FairSpec == Init /\ [][FairNext]_vars /\ WF_vars(FairNext)

TypeOK ==
  /\ pc \in {"clean", "branch", "context", "single", "singleWait", "plan",
             "step", "stepWait", "summary", "push", "pr", "done", "failed"}
  /\ cpc \in {"idle", "generate", "respond", "written", "direct", "caught",
              "regen", "create", "replace", "terminal", "returned", "threw"}
  /\ stepLabel \in Labels
  /\ i \in 0..(MaxPlan + 1)

\* ------------------------------------------------ runPlanExecute, long plans
\* The run from the entry of runPlanExecute on, with every iteration of its
\* loop taken as one step, so that plans longer than MaxPlan are followed.
PlanInit ==
  /\ pc = "plan"
  /\ prompt \in Prompts
  /\ \E size \in ContextSizes :
       executionTier = classifyTaskSizing(prompt, size)
  /\ maxSteps = IF executionTier = "TIER_3" THEN 8 ELSE 4
  /\ planLen = 0 /\ i = 0 /\ err = NoError
  /\ branch = TRUE /\ committed = FALSE /\ pushed = FALSE
  /\ prCreated = FALSE /\ planCalls = 0
  /\ tree = [f \in Files |-> IF f = "f1" THEN Orig ELSE Missing]
  /\ index = {"f1"}
  /\ artifact = [l \in Labels |-> NoFile]
  /\ contextText = buildContext(index, 0)
  /\ IdleCascade
  /\ call = NoCall /\ ret = Null
  /\ NoRuns
  /\ NoPoll
  /\ NoQdrant

GenerateLongPlan == GeneratePlanUpTo(MaxLongPlan)

\* one iteration of the loop: applyPatchFromClaude for step i, then the
\* context refresh, or the error that leaves the loop
RunPlanStep ==
  /\ pc = "step"
  /\ \/ /\ \E f \in Files : tree' \in {tree, WriteFile(tree, P("", f), i)}
        /\ contextText' = buildContext(index, i)
        /\ i' = i + 1
        /\ pc' = IF i < planLen THEN "step" ELSE "summary"
        /\ UNCHANGED err
     \/ /\ \E e \in {GenError, InvalidPatch(i, <<>>, <<>>)} : Fail(e)
        /\ UNCHANGED <<tree, contextText, i>>
  /\ UNCHANGED <<prompt, executionTier, maxSteps, planLen, branch,
                 committed, pushed, prCreated, planCalls, index, artifact>>
  /\ ResetCascade
  /\ UNCHANGED fvars

PlanNext ==
  \/ GenerateLongPlan \/ RunPlanStep
  \/ Commit \/ Push \/ CreatePullRequest

PlanSpec == PlanInit /\ [][PlanNext]_vars

\* ------------------------------------------------------------ plan parsing
\* The text of a planning response is [array, items]: whether the text
\* between its first '[' and last ']' parses as a JSON array, and the
\* entries of that array, [title, instruction] each; a field that is
\* absent or null reads as "". The fields "", " ", "a" and " b ".
PlanFields == { <<>>, <<" ">>, <<"a">>, <<" ", "b", " ">> }

PlanResponses ==
  { [array |-> FALSE, items |-> <<>>] } \cup
  { [array |-> TRUE, items |-> items] :
      items \in UNION { [1..n -> [title : PlanFields,
                                  instruction : PlanFields]] :
                          n \in 0..MaxPlanItems } }

parsePlanJson_KeepAll(raw) ==
  [k \in 1..Len(raw.items) |->
     [title |-> TrimStr(raw.items[k].title),
      instruction |-> TrimStr(raw.items[k].instruction)]]

parsePlanJson(raw) ==
  IF ~raw.array THEN <<>>
  ELSE SelectSeq([k \in 1..Len(raw.items) |->
                    [title |-> TrimStr(raw.items[k].title),
                     instruction |-> TrimStr(raw.items[k].instruction)]],
                 LAMBDA item : item.title # <<>> /\ item.instruction # <<>>)

\* the plan runPlanExecute gets, or the error raised instead of it
generatePlanWithClaude(raw) ==
  LET parsed == parsePlanJson(raw) IN
  IF Len(parsed) = 0 THEN [plan |-> <<>>, err |-> PlanError]
  ELSE [plan |-> parsed, err |-> NoError]

\* ------------------------------------------------------------- file paths
\* A file path is the sequence of its segments; the repository root is
\* /repo. filePath is what extractPrimaryFilePath takes from '+++ b/(.+)'
\* or 'diff --git a/.. b/(.+)', or extractFilePathFromPrompt from the
\* prompt ([a-zA-Z0-9_./-]+ and an extension): f1, d/f3, ./f1, d/../f1,
\* /etc/o, ../o, d/../../o and ../repo/f1.
RepoRoot == <<"repo">>

FilePaths ==
  { <<"f1">>, <<"d", "f3">>, <<".", "f1">>, <<"d", "..", "f1">>,
    <<"", "etc", "o">>, <<"..", "o">>, <<"d", "..", "..", "o">>,
    <<"..", "repo", "f1">> }

\* path.join(root, filePath) of an absolute root: the segments of both,
\* with "" and "." dropped and ".." taking back the segment before it
RECURSIVE pathJoin(_, _)
pathJoin(root, filePath) ==
  IF filePath = <<>> THEN root
  ELSE IF Head(filePath) \in {"", "."} THEN pathJoin(root, Tail(filePath))
  ELSE IF Head(filePath) = ".."
       THEN pathJoin(IF root = <<>> THEN root
                     ELSE SubSeq(root, 1, Len(root) - 1), Tail(filePath))
  ELSE pathJoin(Append(root, Head(filePath)), Tail(filePath))

\* the operations of a step that open path.join(repoRoot, filePath)
FileOps ==
  { "newFileWrite", "nonDiffWrite", "createWrite", "replaceWrite",
    "regenerateRead" }

\* ---------------------------------------------- the file path of a prompt
\* the alternatives of the extension group, in the order of the pattern
Extensions ==
  << <<"j", "s">>,
     <<"t", "s">>,
     <<"t", "s", "x">>,
     <<"j", "s", "x">>,
     <<"p", "y">>,
     <<"j", "a", "v", "a">>,
     <<"g", "o">>,
     <<"r", "b">>,
     <<"r", "s">>,
     <<"c", "p", "p">>,
     <<"c">>,
     <<"h">>,
     <<"m", "d">>,
     <<"j", "s", "o", "n">>,
     <<"y", "a", "m", "l">>,
     <<"y", "m", "l">> >>

\* [a-zA-Z0-9_./-]; the prompts below are lower case
PathChars ==
  LowerLetters \cup {DigitChars[k] : k \in 1..10} \cup {"_", ".", "/", "-"}

PromptTexts ==
  { \* "fix a.ts"
    <<"f", "i", "x", " ", "a", ".", "t", "s">>,
    \* "fix a.json"
    <<"f", "i", "x", " ", "a", ".", "j", "s", "o", "n">>,
    \* "fix a.css"
    <<"f", "i", "x", " ", "a", ".", "c", "s", "s">>,
    \* "fix it"
    <<"f", "i", "x", " ", "i", "t">>,
    \* "b.py a.md"
    <<"b", ".", "p", "y", " ", "a", ".", "m", "d">>,
    \* "d/a.tsx"
    <<"d", "/", "a", ".", "t", "s", "x">>,
    \* "add x.yml"
    <<"a", "d", "d", " ", "x", ".", "y", "m", "l">> }

\* word stands at position k of text
StandsAt(text, k, word) ==
  /\ k + Len(word) - 1 <= Len(text)
  /\ \A j \in 1..Len(word) : text[k + j - 1] = word[j]

\* prompt.match(/([a-zA-Z0-9_./-]+\.(?:js|ts|...))/)?.[1] ?? null: the
\* leftmost match, the class taken as long as a dot and an alternative
\* still follow, the alternatives tried in their order
extractFilePathFromPrompt(promptText) ==
  LET n == Len(promptText)
      Ext(e) == {x \in 1..Len(Extensions) :
                   StandsAt(promptText, e + 2, Extensions[x])}
      Match(s, e) ==
        /\ \A j \in s..e : promptText[j] \in PathChars
        /\ e + 1 <= n /\ promptText[e + 1] = "."
        /\ Ext(e) # {}
      starts == {s \in 1..n : \E e \in s..n : Match(s, e)}
  IN IF starts = {} THEN Null
     ELSE LET s == SetMin(starts)
              e == SetMax({d \in s..n : Match(s, d)})
              x == SetMin(Ext(e))
          IN SubSeq(promptText, s, e + 1 + Len(Extensions[x]))

NonDiffContents == {<<Prose>>, <<Fence, Prose, Fence, Blank>>, <<Fence, Fence>>}

\* writeFileFromNonPatchResponse: whether it wrote, where and what
writeFileFromNonPatchResponse(promptText, text) ==
  LET content == TrimText(stripCodeFences(text))
      target == extractFilePathFromPrompt(promptText)
  IN IF TrimEmpty(content) \/ target = Null
     THEN [wrote |-> FALSE, target |-> Null, body |-> Null]
     ELSE [wrote |-> TRUE, target |-> target, body |-> Append(content, Blank)]

\* ------------------------------------------------------- setup and prompt
\* what getSetupStatus finds: the indexer running, the two secrets and the
\* two settings
Setups ==
  [hasIndexer : BOOLEAN, hasApiKey : BOOLEAN, hasGithub : BOOLEAN,
   hasRepo : BOOLEAN, hasBaseBranch : BOOLEAN]

getSetupStatus_NoIndexer(has) ==
  [ currentStep |->
      IF ~has.hasIndexer THEN "indexing"
      ELSE IF ~has.hasApiKey THEN "apiKey"
      ELSE IF ~has.hasGithub THEN "github"
      ELSE IF ~has.hasRepo THEN "repo"
      ELSE IF ~has.hasBaseBranch THEN "baseBranch"
      ELSE "ready",
    isReady |->
      has.hasApiKey /\ has.hasGithub /\ has.hasRepo /\ has.hasBaseBranch ]

getSetupStatus(has) ==
  [ currentStep |->
      IF ~has.hasIndexer THEN "indexing"
      ELSE IF ~has.hasApiKey THEN "apiKey"
      ELSE IF ~has.hasGithub THEN "github"
      ELSE IF ~has.hasRepo THEN "repo"
      ELSE IF ~has.hasBaseBranch THEN "baseBranch"
      ELSE "ready",
    isReady |->
      /\ has.hasIndexer /\ has.hasApiKey /\ has.hasGithub
      /\ has.hasRepo /\ has.hasBaseBranch ]

\* the trimmed texts of a 'prompt' message: "", "o/r", "fix"
MessageTexts == {<<>>, <<"o", "/", "r">>, <<"f", "i", "x">>}

\* /^[^/]+\/[^/]+$/
isRepoSlug(value) ==
  \E k \in 2..(Len(value) - 1) :
    \A j \in 1..Len(value) : (value[j] = "/") = (j = k)

\* what the panel does on a 'prompt' message, given the status it awaited
onPromptMessage(setupStatus, text) ==
  IF text = <<>> THEN "ignored"
  ELSE IF setupStatus.currentStep = "apiKey" THEN "storeApiKey"
  ELSE IF setupStatus.currentStep = "indexing" THEN "indexerStarting"
  ELSE IF setupStatus.currentStep = "github" THEN "askSignIn"
  ELSE IF setupStatus.currentStep = "repo"
       THEN IF isRepoSlug(text) THEN "setRepoSlug" ELSE "rejectRepo"
  ELSE IF setupStatus.currentStep = "baseBranch" THEN "setBaseBranch"
  ELSE IF ~setupStatus.isReady THEN "finishSetup"
  ELSE "runGeneratePrompt"

\* ------------------------------------------------- functions on their own
\* Each action below calls one function of the program on an input drawn
\* from a bounded set and records the call and what it returned; a
\* behaviour makes one call.
mvars == <<rvars, contextText, wvars, cvars>>

Called(fn, arg, value) ==
  /\ call = NoCall
  /\ call' = [fn |-> fn, arg |-> arg]
  /\ ret' = value
  /\ UNCHANGED <<mvars, tvars, pvars, qvars>>

CallEnsureClean ==
  \E entries \in StatusOutputs :
    Called("ensureClean", entries, ensureClean(Porcelain(entries)))

CallClassifyTaskSizing ==
  \E len \in PromptLengths, count \in RequestedCounts, scope \in BOOLEAN,
     size \in ContextLengths :
    LET tier == classifyTaskSizing(Prompt(len, count, scope, NoPath), size)
    IN Called("classifyTaskSizing",
              [len |-> len, count |-> count, scope |-> scope, size |-> size],
              [tier |-> tier, mode |-> dispatch(tier)])

\* prompts, lower case, with the count a reader finds in them
CountTexts ==
  { \* "fix the three files"
    [ text |->
        <<"f", "i", "x", " ", "t", "h", "e", " ", "t", "h", "r", "e", "e",
          " ", "f", "i", "l", "e", "s">>,
      mention |-> 3 ],
    \* "update 12 endpoints"
    [ text |->
        <<"u", "p", "d", "a", "t", "e", " ", "1", "2", " ", "e", "n", "d",
          "p", "o", "i", "n", "t", "s">>,
      mention |-> 12 ],
    \* "twenty-five items"
    [ text |->
        <<"t", "w", "e", "n", "t", "y", "-", "f", "i", "v", "e", " ", "i",
          "t", "e", "m", "s">>,
      mention |-> 25 ],
    \* "nothing here"
    [ text |->
        <<"n", "o", "t", "h", "i", "n", "g", " ", "h", "e", "r", "e">>,
      mention |-> 0 ],
    \* "fourten files"
    [ text |->
        <<"f", "o", "u", "r", "t", "e", "n", " ", "f", "i", "l", "e", "s">>,
      mention |-> 14 ],
    \* "add 1000 rows"
    [ text |->
        <<"a", "d", "d", " ", "1", "0", "0", "0", " ", "r", "o", "w", "s">>,
      mention |-> 0 ],
    \* "thirty two items"
    [ text |->
        <<"t", "h", "i", "r", "t", "y", " ", "t", "w", "o", " ", "i", "t",
          "e", "m", "s">>,
      mention |-> 32 ],
    \* "the dirty flag"
    [ text |->
        <<"t", "h", "e", " ", "d", "i", "r", "t", "y", " ", "f", "l", "a",
          "g">>,
      mention |-> 0 ],
    \* "v2 and 7 more"
    [ text |->
        <<"v", "2", " ", "a", "n", "d", " ", "7", " ", "m", "o", "r", "e">>,
      mention |-> 7 ],
    \* "two-three files"
    [ text |->
        <<"t", "w", "o", "-", "t", "h", "r", "e", "e", " ", "f", "i", "l",
          "e", "s">>,
      mention |-> 3 ],
    \* "ten-five tests"
    [ text |->
        <<"t", "e", "n", "-", "f", "i", "v", "e", " ", "t", "e", "s", "t",
          "s">>,
      mention |-> 10 ],
    \* "fifty-ten tests"
    [ text |->
        <<"f", "i", "f", "t", "y", "-", "t", "e", "n", " ", "t", "e", "s",
          "t", "s">>,
      mention |-> 50 ],
    \* "forty-two rows"
    [ text |->
        <<"f", "o", "r", "t", "y", "-", "t", "w", "o", " ", "r", "o", "w",
          "s">>,
      mention |-> 42 ],
    \* "a constructor with 12 args"
    [ text |->
        <<"a", " ", "c", "o", "n", "s", "t", "r", "u", "c", "t", "o", "r",
          " ", "w", "i", "t", "h", " ", "1", "2", " ", "a", "r", "g", "s">>,
      mention |-> 12 ],
    \* "twenti five files"
    [ text |->
        <<"t", "w", "e", "n", "t", "i", " ", "f", "i", "v", "e", " ", "f",
          "i", "l", "e", "s">>,
      mention |-> 25 ] }

CallExtractRequestedCount ==
  \E t \in CountTexts :
    Called("extractRequestedCount", t, extractRequestedCount(t.text))

\* lines 1083-1092 of applyPatchFromClaude on the response raw
CallNormalize ==
  \E raw \in RawResponses :
    LET patch == extractUnifiedDiff(raw)
    IN Called("normalize", [raw |-> raw, patch |-> patch],
              Normalize(patch, tree))

CallEnsureDiffGitHeader ==
  \E raw \in RawResponses :
    LET patch == extractUnifiedDiff(raw)
    IN Called("ensureDiffGitHeader", patch, ensureDiffGitHeader(patch))

CallExtractNewFileContent ==
  \E patch \in NewFileTexts :
    Called("extractNewFileContentFromPatch", patch,
           extractNewFileContentFromPatch(patch))

CallPathJoin ==
  \E op \in FileOps, filePath \in FilePaths :
    Called("pathJoin", [op |-> op, filePath |-> filePath],
           pathJoin(RepoRoot, filePath))

CallWriteFile ==
  \E op \in FileOps \ {"regenerateRead"},
     text \in RawResponses \cup NewFileTexts \cup FileResponses :
    /\ WrittenBody(op, text, tree) # Null
    /\ Called("writeFile", [op |-> op, text |-> text],
              WrittenBody(op, text, tree))

CallWriteFileFromNonPatchResponse ==
  \E p \in PromptTexts, text \in NonDiffContents :
    Called("writeFileFromNonPatchResponse", [prompt |-> p, text |-> text],
           writeFileFromNonPatchResponse(p, text))

CallOnPromptMessage ==
  \E has \in Setups, text \in MessageTexts :
    Called("onPromptMessage", [has |-> has, text |-> text],
           [status |-> getSetupStatus(has),
            does |-> onPromptMessage(getSetupStatus(has), text)])

CallGeneratePlan ==
  \E raw \in PlanResponses :
    Called("generatePlanWithClaude", raw, generatePlanWithClaude(raw))

FnNext ==
  \/ CallEnsureClean
  \/ CallGeneratePlan
  \/ CallWriteFile
  \/ CallOnPromptMessage
  \/ CallWriteFileFromNonPatchResponse
  \/ CallPathJoin
  \/ CallNormalize
  \/ CallEnsureDiffGitHeader
  \/ CallExtractNewFileContent
  \/ CallClassifyTaskSizing
  \/ CallExtractRequestedCount

FnInit == Init /\ prompt.path = NoPath /\ prompt.len = 50

FnSpec == FnInit /\ [][FnNext]_vars

\* ------------------------------------------- runs against one working tree
\* runGeneratePrompt is started by the command and by every prompt message
\* of the chat panel; a run suspends at each awaited call, where another
\* run of the same extension host goes on. The steps of run r, of the
\* TIER_1 path: the clean check, the branch, the generation call, the
\* artifact write, the apply, the commit.
ArtifactPath == <<".", "l", "l", "m", "-", "p", "r">>
TouchedPath == <<"a">>
Untracked(path) == [code |-> <<"?", "?">>, path |-> path]
Modified(path) == [code |-> <<" ", "M">>, path |-> path]

Without(entries, path) == SelectSeq(entries, LAMBDA e : e.path # path)

RunMoves(r, to) ==
  /\ runPc' = [runPc EXCEPT ![r] = to]
  /\ UNCHANGED <<mvars, call, ret, pvars, qvars>>

StartRun(r) ==
  /\ runPc[r] = "idle"
  /\ RunMoves(r, "clean")
  /\ UNCHANGED <<status, wrote>>

RunEnsureClean(r) ==
  /\ runPc[r] = "clean"
  /\ RunMoves(r, IF ensureClean(Porcelain(status)) THEN "failed"
                 ELSE "branch")
  /\ UNCHANGED <<status, wrote>>

\* buildBranchName names the branch by the second: checkout -b fails for
\* the second of two runs started within one second
RunCreateBranch(r) ==
  /\ runPc[r] = "branch"
  /\ \E to \in {"generate", "failed"} : RunMoves(r, to)
  /\ UNCHANGED <<status, wrote>>

RunGenerate(r) ==
  /\ runPc[r] = "generate"
  /\ \E to \in {"artifact", "failed"} : RunMoves(r, to)
  /\ UNCHANGED <<status, wrote>>

\* fs.writeFile(patchPath, ...) with stepLabel "single-shot"
RunWriteArtifact(r) ==
  /\ runPc[r] = "artifact"
  /\ RunMoves(r, "apply")
  /\ status' = Append(Without(status, ArtifactPath), Untracked(ArtifactPath))
  /\ wrote' = [wrote EXCEPT ![r] = @ \cup {ArtifactPath}]

\* git apply and safeUnlink(patchPath), or the terminal failure
RunApply(r) ==
  /\ runPc[r] = "apply"
  /\ \/ /\ RunMoves(r, "commit")
        /\ status' = Append(Without(Without(status, ArtifactPath),
                                    TouchedPath), Modified(TouchedPath))
        /\ wrote' = [wrote EXCEPT ![r] = @ \cup {TouchedPath}]
     \/ RunMoves(r, "failed") /\ UNCHANGED <<status, wrote>>

\* commitAll: git add -A and git commit
RunCommit(r) ==
  /\ runPc[r] = "commit"
  /\ RunMoves(r, "done")
  /\ status' = <<>>
  /\ UNCHANGED wrote

TwoNext ==
  \E r \in RunIds :
    \/ StartRun(r) \/ RunEnsureClean(r) \/ RunCreateBranch(r)
    \/ RunGenerate(r) \/ RunWriteArtifact(r) \/ RunApply(r)
    \/ RunCommit(r)

TwoSpec == FnInit /\ [][TwoNext]_vars

\* ----------------------------------------------------- pollForGithubToken
\* 10 * 60 * 1000 ms, Math.max(intervalSeconds, 5) and interval += 5000
PollDeadline == 600
MinInterval == 5
SlowDownStep == 5

\* deviceResponse.interval, and the seconds a token request takes
IntervalSeconds == {0, 5, 7}
Latencies == {0, 2}

\* what a token request comes back with: an access token, no error, the
\* errors the loop tells apart, another error, or postForm's own failure
PollResponses ==
  { "access_token", "none", "authorization_pending", "slow_down",
    "expired_token", "access_denied", "bad_verification_code", "failed" }

\* where the loop body goes on a response
pollOutcome(r) ==
  CASE r = "access_token" -> "returned"
    [] r \in {"none", "authorization_pending", "slow_down"} -> "delay"
    [] OTHER -> "threw"

pollMessage(r) ==
  CASE r = "access_token" -> "token"
    [] r = "expired_token" -> "GitHub device code expired. Please try again."
    [] r = "access_denied" -> "GitHub access denied."
    [] r = "failed" -> "Unexpected response from GitHub."
    [] OTHER -> "GitHub login failed"

nextInterval_Reset(cur, r) == IF r = "slow_down" THEN SlowDownStep ELSE cur

nextInterval(cur, r) == IF r = "slow_down" THEN cur + SlowDownStep ELSE cur

PollMoves(to) ==
  /\ pollPc' = to
  /\ UNCHANGED <<mvars, call, ret, tvars, qvars>>

PollStart ==
  /\ pollPc = "idle"
  /\ PollMoves("check")
  /\ deadline' = now + PollDeadline
  /\ \E intervalSeconds \in IntervalSeconds :
       interval' = IF intervalSeconds > MinInterval THEN intervalSeconds
                   ELSE MinInterval
  /\ UNCHANGED <<now, response, respondedAt, pollResult>>

\* while (Date.now() < deadline), and the throw after the loop
PollCheck ==
  /\ pollPc = "check"
  /\ IF now < deadline
     THEN PollMoves("request") /\ UNCHANGED pollResult
     ELSE PollMoves("threw") /\ pollResult' = "GitHub login timed out."
  /\ UNCHANGED <<now, deadline, interval, response, respondedAt>>

\* await postForm(...) and the tests of the response
PollRequest ==
  /\ pollPc = "request"
  /\ \E r \in PollResponses, latency \in Latencies :
       /\ now' = now + latency
       /\ respondedAt' = now'
       /\ response' = r
       /\ interval' = nextInterval(interval, r)
       /\ PollMoves(pollOutcome(r))
       /\ pollResult' = IF pollOutcome(r) = "delay" THEN pollResult
                        ELSE pollMessage(r)
  /\ UNCHANGED deadline

\* await delay(interval); continue
PollDelay ==
  /\ pollPc = "delay"
  /\ PollMoves("check")
  /\ now' = now + interval
  /\ UNCHANGED <<deadline, interval, response, respondedAt, pollResult>>

PollNext == PollStart \/ PollCheck \/ PollRequest \/ PollDelay

\* the loop's own steps and the timer of delay always run; the token
\* request is awaited with no timeout, so nothing makes it settle
PollSpec ==
  FnInit /\ [][PollNext]_vars /\ WF_vars(PollStart \/ PollCheck \/ PollDelay)

\* ----------------------------------------------------------- rag/qdrant.ts
\* A process is "alive" from its spawn, "ending" once it has terminated by
\* itself and "stopped" once stopQdrant has sent it SIGTERM, its 'exit'
\* event still to be delivered in both, and "exited" after the event.
Fresh(f) == SetMin({k \in Callers : f[k] = "none"})

QdrantMoves ==
  UNCHANGED <<mvars, call, ret, tvars, pvars>>

\* startQdrant up to its first await: if (qdrantProcess) return
StartQdrant(c) ==
  /\ startPc[c] = "idle"
  /\ startPc' = [startPc EXCEPT ![c] =
                   IF qdrantProcess # 0 THEN "done" ELSE "stat"]
  /\ UNCHANGED <<qdrantProcess, proc, downloadPromise, download, ensurePc,
                 got>>
  /\ QdrantMoves

\* after await assertFileExists: it threw, or spawn and the assignment of
\* the handle
Spawn(c) ==
  /\ startPc[c] = "stat"
  /\ startPc' = [startPc EXCEPT ![c] = "done"]
  /\ \/ UNCHANGED <<qdrantProcess, proc>>
     \/ /\ proc' = [proc EXCEPT ![Fresh(proc)] = "alive"]
        /\ qdrantProcess' = Fresh(proc)
  /\ UNCHANGED <<downloadPromise, download, ensurePc, got>>
  /\ QdrantMoves

\* the process terminates by itself
Terminate(p) ==
  /\ proc[p] = "alive"
  /\ proc' = [proc EXCEPT ![p] = "ending"]
  /\ UNCHANGED <<qdrantProcess, startPc, downloadPromise, download,
                 ensurePc, got>>
  /\ QdrantMoves

\* qdrantProcess.on("exit", () => { qdrantProcess = null; })
OnExit(p) ==
  /\ proc[p] \in {"ending", "stopped"}
  /\ proc' = [proc EXCEPT ![p] = "exited"]
  /\ qdrantProcess' = 0
  /\ UNCHANGED <<startPc, downloadPromise, download, ensurePc, got>>
  /\ QdrantMoves

StopQdrant ==
  /\ qdrantProcess # 0
  /\ proc' = [proc EXCEPT ![qdrantProcess] =
                IF @ \in {"alive", "ending"} THEN "stopped" ELSE @]
  /\ qdrantProcess' = 0
  /\ UNCHANGED <<startPc, downloadPromise, download, ensurePc, got>>
  /\ QdrantMoves

getQdrantStatus == IF qdrantProcess # 0 THEN "running" ELSE "stopped"

EnsureJoining(c, joins) ==
  /\ ensurePc[c] = "idle"
  /\ IF joins
     THEN /\ got' = [got EXCEPT ![c] = downloadPromise]
          /\ ensurePc' = [ensurePc EXCEPT ![c] = "joined"]
          /\ UNCHANGED <<downloadPromise, download>>
     ELSE /\ download' = [download EXCEPT ![Fresh(download)] = "pending"]
          /\ downloadPromise' = Fresh(download)
          /\ got' = [got EXCEPT ![c] = Fresh(download)]
          /\ ensurePc' = [ensurePc EXCEPT ![c] = "owner"]
  /\ UNCHANGED <<qdrantProcess, proc, startPc>>
  /\ QdrantMoves

EnsureQdrantBinary_NoGuard(c) == EnsureJoining(c, FALSE)

\* ensureQdrantBinary up to its await: the guard, else a new download
EnsureQdrantBinary(c) == EnsureJoining(c, downloadPromise # 0)

\* the async body returns a path or throws
Settle(d) ==
  /\ download[d] = "pending"
  /\ \E how \in {"resolved", "rejected"} :
       download' = [download EXCEPT ![d] = how]
  /\ UNCHANGED <<qdrantProcess, proc, startPc, downloadPromise, ensurePc,
                 got>>
  /\ QdrantMoves

\* the caller resumes after its await; the one that started the download
\* runs finally { downloadPromise = null; }
Resume(c) ==
  /\ ensurePc[c] \in {"owner", "joined"}
  /\ download[got[c]] # "pending"
  /\ ensurePc' = [ensurePc EXCEPT ![c] = "done"]
  /\ downloadPromise' = IF ensurePc[c] = "owner" THEN 0 ELSE downloadPromise
  /\ UNCHANGED <<qdrantProcess, proc, startPc, download, got>>
  /\ QdrantMoves

QdrantNext ==
  \/ \E c \in Callers :
       \/ StartQdrant(c) \/ Spawn(c)
       \/ EnsureQdrantBinary(c) \/ Resume(c)
  \/ \E p \in Callers : Terminate(p) \/ OnExit(p) \/ Settle(p)
  \/ StopQdrant

QdrantSpec == FnInit /\ [][QdrantNext]_vars

\* ------------------------------------------------------------------ claims
Ended == cpc \in {"returned", "threw"}
Has(e) == \E k \in 1..Len(hist) : hist[k] = e
InvalidMsg == "The model returned an invalid patch."
DirectFailed == oracle.direct # ""

\* the order of the strategies as applyPatchFromClaude runs them
CodeRank(e) ==
  CASE e = "artifact" -> 0
    [] e = "newFile" -> 1
    [] e = "createEarly" -> 2
    [] e = "direct" -> 3
    [] e = "rewrite" -> 4
    [] e = "threeWay" -> 5
    [] e = "regen" -> 6
    [] e = "create" -> 7
    [] e = "replace" -> 8
    [] e = "terminal" -> 9

\* the order of the strategies as section 4.4 lists them
ListedRank(e) ==
  CASE e = "artifact" -> 0
    [] e = "direct" -> 1
    [] e = "rewrite" -> 1
    [] e = "newFile" -> 2
    [] e = "threeWay" -> 3
    [] e = "regen" -> 4
    [] e = "createEarly" -> 5
    [] e = "create" -> 5
    [] e = "replace" -> 6
    [] e = "terminal" -> 7

\* the strategy that ends a successful cascade
EventOf(how) ==
  CASE how = "newFile" -> {"newFile"}
    [] how = "created" -> {"createEarly", "create"}
    [] how = "direct" -> {"direct"}
    [] how = "rewrite" -> {"rewrite"}
    [] how = "threeWay" -> {"threeWay"}
    [] how = "regen" -> {"regen"}
    [] how = "replaced" -> {"replace"}
    [] OTHER -> {}

CascadeOutcomes ==
  {"newFile", "created", "direct", "rewrite", "threeWay", "regen", "replaced"}
FileWriteOutcomes == {"newFile", "created", "replaced"}

\* C1 as stated: the strategies run in the listed order direct apply ->
\* new-file short-circuit -> three-way -> regeneration -> missing-file
\* creation -> whole-file replace -> terminal failure, and no file body is
\* written directly before a direct apply was attempted and failed.
C1_ListedOrder ==
  /\ \A j, k \in 1..Len(hist) :
       j < k => ListedRank(hist[j]) <= ListedRank(hist[k])
  /\ outcome \in FileWriteOutcomes => Has("direct")

\* C1 amended: the strategies run in the order new-file short-circuit ->
\* missing-file creation (primary file missing) -> direct apply -> rewritten
\* new-file patch -> three-way -> regeneration -> missing-file creation ->
\* whole-file replace -> terminal failure, each at most once; the cascade
\* returns at the first strategy that succeeds; the short-circuit and the
\* early creation write before any direct apply, the late creation and the
\* replace only after direct apply and three-way merge have failed.
C1_CascadeOrder ==
  /\ \A j, k \in 1..Len(hist) :
       j < k => CodeRank(hist[j]) < CodeRank(hist[k])
  /\ cpc = "returned" /\ outcome \in CascadeOutcomes =>
       /\ Last(hist) \in EventOf(outcome)
       /\ applied <= 1
  /\ applied = 1 => cpc = "returned"
  /\ Has("newFile") => ~Has("direct")
  /\ Has("create") \/ Has("replace") \/ Has("terminal") =>
       Has("direct") /\ Has("threeWay")

C1_Witness ==
  /\ cpc = "returned" /\ outcome = "replaced"
  /\ hist = <<"artifact", "direct", "threeWay", "regen", "create",
              "replace">>

RewriteApplies ==
  rewriteNewFilePatchForExistingFile(normalizedPatch, tree0) # Null

C5_OnlyInvalidPatch ==
  cpc = "threw" /\ Has("artifact") =>
    cerr.msg \in {InvalidMsg, GenError.msg, FsError.msg}

\* C6: when every strategy fails the error carries the direct-apply error
\* text, the three-way error text and the artifact path, and the artifact
\* is still on disk holding the last patch that was attempted.
C6_TerminalError ==
  cpc = "threw" /\ cerr.msg = InvalidMsg =>
    /\ Last(hist) = "terminal"
    /\ cerr.details = ErrText(GitError(GitCmd(oracle.direct)))
    /\ cerr.threeWay = ErrText(GitError("apply --3way"))
    /\ cerr.path = <<stepLabel>>
    /\ artifact[stepLabel] # NoFile
    /\ artifact[stepLabel] = attempted

C6_Witness ==
  /\ cpc = "threw" /\ cerr.msg = InvalidMsg /\ Has("regen")
  /\ attempted # normalizedPatch

\* C7: in a TIER_1 run no plan is requested before the single-shot attempt
\* ends; when it fails the run goes to planning exactly when the failure is
\* the non-diff error or the invalid-patch error of the exhausted cascade,
\* and every other failure aborts the run with that error; when it succeeds
\* the run goes on to the commit without any plan-generation call.
C7_FallbackStep ==
  pc = "singleWait" /\ Ended =>
    /\ executionTier = "TIER_1" /\ planCalls = 0
    /\ planCalls' = 0
    /\ (pc' = "plan") <=>
         (cpc = "threw" /\ cerr.msg \in {NotAPatch.msg, InvalidMsg})
    /\ cpc = "threw" /\ pc' # "plan" => pc' = "failed" /\ err' = cerr
    /\ cpc = "returned" => pc' = "summary"

C7_NoPlanAfterSuccess ==
  /\ executionTier = "TIER_1" /\ pc \in {"single", "singleWait"} =>
       planCalls = 0
  /\ executionTier = "TIER_1" /\ i = 0
       /\ pc \in {"summary", "push", "pr", "done"} => planCalls = 0
  /\ pc = "failed" /\ executionTier = "TIER_1" /\ planCalls = 0 =>
       err.msg \notin {NotAPatch.msg, InvalidMsg}

C7_FallbackOnlyOnPatchFailure ==
  /\ []C7_NoPlanAfterSuccess
  /\ [][C7_FallbackStep]_vars
  /\ [][planCalls' # planCalls => pc = "plan"]_vars
  /\ [][pc' = "plan" /\ executionTier' = "TIER_1" => pc = "singleWait"]_vars
  /\ [][pc # "failed" /\ pc # "done"]_vars

C7_Witness ==
  pc = "plan" /\ executionTier = "TIER_1" /\ planCalls = 0 /\ maxSteps = 4

\* C8: an empty response returns silently in plan execution (allowEmpty):
\* no working-tree change, no artifact, no error, and the runner goes on to
\* the next step; in the single-shot attempt it raises the non-diff error.
C8_EmptyStep ==
  cpc = "respond" /\ TrimEmpty(normalizedPatch) =>
    /\ allowEmpty <=> pc = "stepWait"
    /\ ~allowEmpty <=> pc = "singleWait"
    /\ UNCHANGED <<tree, index, artifact>>
    /\ artifact[stepLabel] = NoFile
    /\ IF allowEmpty
       THEN cpc' = "returned" /\ outcome' = "empty" /\ cerr' = NoError
       ELSE cpc' = "threw" /\ cerr' = NotAPatch

C8_RunnerProceeds ==
  pc = "stepWait" /\ cpc = "returned" /\ outcome = "empty" =>
    /\ tree = tree0 /\ UNCHANGED <<tree, artifact, err>>
    /\ i' = i + 1
    /\ pc' = IF i < planLen THEN "step" ELSE "summary"

C8_EmptyResponse ==
  /\ [][C8_EmptyStep]_vars
  /\ [][C8_RunnerProceeds]_vars
  /\ [](outcome = "empty" => TrimEmpty(normalizedPatch) /\ allowEmpty)

C8_Witness ==
  /\ pc = "stepWait" /\ cpc = "returned" /\ outcome = "empty"
  /\ i = 1 /\ planLen = 2

\* C9: the plan steps run in plan order, one at a time: step i+1 starts
\* only after step i has returned and the context has been rebuilt, and
\* the generation call of step i+1 gets the context rebuilt after step i.
C9_StepState ==
  /\ pc = "stepWait" =>
       /\ stepLabel = i /\ i \in 1..planLen
       /\ usedContext = contextText
       /\ i >= 2 => usedContext.builtAfter = i - 1
  /\ pc = "step" => cpc = "idle" /\ i \in 1..planLen
  /\ pc = "step" /\ i >= 2 => contextText.builtAfter = i - 1

C9_StepOrder ==
  /\ i' # i =>
       \/ pc = "plan" /\ i = 0 /\ i' = 1
       \/ /\ pc = "stepWait" /\ cpc = "returned" /\ i' = i + 1
          /\ contextText' = buildContext(index, i)
  /\ stepLabel' # stepLabel /\ pc' = "stepWait" =>
       pc = "step" /\ cpc = "idle" /\ stepLabel' = i
  /\ contextText' # contextText => cpc \in {"idle", "returned"}

C9_SequentialFreshContext ==
  /\ []C9_StepState
  /\ [][C9_StepOrder]_vars

C9_Witness ==
  /\ pc = "stepWait" /\ i = 2 /\ cpc = "respond"
  /\ usedContext.builtAfter = 1 /\ tree["f2"] = Written(1)

\* C10: when the cascade of plan step k is exhausted the run fails at once:
\* no later step runs and nothing is retried, the working tree keeps what
\* steps 1..k-1 (and step k) did to it, and nothing is committed, pushed or
\* opened as a pull request.
C10_HaltStep ==
  pc = "stepWait" /\ cpc = "threw" =>
    /\ pc' = "failed" /\ err' = cerr
    /\ i' = i
    /\ UNCHANGED <<tree, index, artifact, planCalls>>
    /\ ~committed' /\ ~pushed' /\ ~prCreated'

C10_FailedState ==
  pc = "failed" /\ err.msg = InvalidMsg =>
    /\ i \in 1..planLen /\ err.path = <<i>>
    /\ planCalls = 1
    /\ ~committed /\ ~pushed /\ ~prCreated
    /\ \A f \in Files : tree[f].st = "written" => tree[f].by <= i

C10_HaltNoRollback ==
  /\ []C10_FailedState
  /\ [][C10_HaltStep]_vars
  /\ [][pc # "failed"]_vars

C10_Witness ==
  /\ pc = "failed" /\ err.msg = InvalidMsg /\ i = 2
  /\ tree["f2"] = Written(1)

\* C11: the plan steps a run executes never exceed the step cap of its tier
\* (4 for TIER_2 and for the fallback from TIER_1, 8 for TIER_3), whatever
\* plan the planning call returns.
C11_StepCap ==
  /\ executionTier \in {"TIER_1", "TIER_2"} => maxSteps = 4
  /\ executionTier = "TIER_3" => maxSteps = 8
  /\ pc = "step" => i <= maxSteps
  /\ pc \in {"summary", "push", "pr", "done"} => i - 1 <= maxSteps

\* C12: nothing is mutated (no branch, no file or patch written, no commit)
\* and no generation or planning call is made before the clean-tree check
\* of the run has succeeded; a failed check ends the run at once with the
\* 'not clean' error, and the check is never run again.
C12_BeforeCheck ==
  pc = "clean" =>
    /\ ~branch /\ ~committed /\ ~pushed /\ ~prCreated
    /\ tree = [f \in Files |-> IF f = "f1" THEN Orig ELSE Missing]
    /\ artifact = [l \in Labels |-> NoFile]
    /\ cpc = "idle" /\ genCalls = 0 /\ planCalls = 0

C12_Rejected ==
  err = DirtyError =>
    /\ pc = "failed"
    /\ ~branch /\ ~committed /\ ~pushed /\ ~prCreated
    /\ tree = [f \in Files |-> IF f = "f1" THEN Orig ELSE Missing]
    /\ artifact = [l \in Labels |-> NoFile]
    /\ cpc = "idle" /\ genCalls = 0 /\ planCalls = 0

C12_CheckStep ==
  /\ pc = "clean" =>
       /\ pc' \in {"branch", "failed"}
       /\ pc' = "failed" => err' \in {DirtyError, GitError("status --porcelain")}
       /\ UNCHANGED <<branch, committed, tree, index, artifact, genCalls,
                      planCalls, cpc>>
  /\ pc # "clean" => pc' # "clean"
  /\ pc # "failed"

C13_RejectsExactly ==
  call.fn = "ensureClean" =>
    (ret <=> \E k \in 1..Len(call.arg) :
               ~StartsWith(call.arg[k].path, VsDir))

\* the score and the tier as the sizing table of the specification gives them
TableScore(a) ==
  (IF a.len > 600 THEN 2 ELSE IF a.len > 300 THEN 1 ELSE 0)
  + (IF a.size > 200000 THEN 2 ELSE IF a.size > 100000 THEN 1 ELSE 0)
  + (IF a.count >= 20 THEN 3 ELSE IF a.count >= 8 THEN 2
     ELSE IF a.count >= 4 THEN 2 ELSE 0)
  + (IF a.scope THEN 1 ELSE 0)

TableTier(a) ==
  IF TableScore(a) >= 5 THEN "TIER_3"
  ELSE IF TableScore(a) >= 3 THEN "TIER_2"
  ELSE "TIER_1"

\* C14: classifyTaskSizing returns the tier of the additive score of the
\* table (prompt length, context length, extracted count, scope keyword),
\* and the run goes single-shot exactly when that tier is TIER_1.
C14_ScoreTable ==
  call.fn = "classifyTaskSizing" =>
    /\ ret.tier = TableTier(call.arg)
    /\ ret.mode = "single" <=> ret.tier = "TIER_1"
    /\ ret.mode = "plan" <=> ret.tier \in {"TIER_2", "TIER_3"}

C14_Witness ==
  /\ call.fn = "classifyTaskSizing"
  /\ call.arg = [len |-> 301, count |-> 4, scope |-> FALSE, size |-> 200001]
  /\ ret = [tier |-> "TIER_3", mode |-> "plan"]

\* C15 as stated: every 50-character prompt without a scope keyword,
\* classified against a context of at most 100000 characters, is TIER_1.
C15_SmallIsTier1 ==
  call.fn = "classifyTaskSizing" /\ call.arg.len = 50 /\ ~call.arg.scope
    /\ call.arg.size <= 100000 => ret.tier = "TIER_1"

\* C15 amended: such a prompt is TIER_1 exactly when the count extracted
\* from it is below 20; with a count of 20 or more it is TIER_2.
C15_SmallIsTier1BelowTwenty ==
  call.fn = "classifyTaskSizing" /\ call.arg.len = 50 /\ ~call.arg.scope
    /\ call.arg.size <= 100000 =>
      ret.tier = IF call.arg.count < 20 THEN "TIER_1" ELSE "TIER_2"

C15_Witness ==
  /\ call.fn = "classifyTaskSizing"
  /\ call.arg = [len |-> 50, count |-> 19, scope |-> FALSE, size |-> 100000]
  /\ ret.tier = "TIER_1"

\* C16: extractRequestedCount returns the largest count the text mentions
\* (a run of up to three digits, a number word, a tens word followed by a
\* units word), 0 when it mentions none; words that are not number words
\* do not contribute
C16_LargestMention ==
  call.fn = "extractRequestedCount" => ret = call.arg.mention

\* C17: normalizing a patch is idempotent: the normalization (header,
\* trailing newline, new-file rewrite) of a normalized patch against the
\* same working tree returns it unchanged, for every raw patch
C17_Idempotent ==
  call.fn = "normalize" => Normalize(ret, tree) = ret

\* C18: for every non-empty raw patch the normalized patch ends with
\* exactly one trailing newline
C18_OneTrailingNewline ==
  call.fn = "normalize" /\ call.arg.patch # EmptyText =>
    /\ Len(ret) >= 2
    /\ Last(ret) = Blank
    /\ ret[Len(ret) - 1] # Blank

\* a response that ended with blank lines was normalized, and a response
\* without a final newline was
C18_Witness ==
  /\ call.fn = "normalize"
  /\ call.arg.patch # EmptyText
  /\ Len(call.arg.raw) >= 3
  /\ Last(call.arg.raw) = Blank
  /\ call.arg.raw[Len(call.arg.raw) - 1] = Blank
  /\ Last(ret) = Blank

\* the first "--- " and "+++ " lines of a patch, 0 when there is none
C19_Old(patch) == FirstIndex([k \in 1..Len(patch) |-> patch[k].k = "old"])
C19_New(patch) == FirstIndex([k \in 1..Len(patch) |-> patch[k].k = "new"])
C19_Unchanged(patch) ==
  \/ \E k \in 1..Len(patch) : patch[k].k = "git"
  \/ C19_Old(patch) = 0
  \/ C19_New(patch) = 0
C19_Mode(old, new) ==
  IF old = DevNull THEN <<NewMode>>
  ELSE IF new = DevNull THEN <<DelMode>>
  ELSE <<>>

\* C19 as stated: a patch with both markers and no 'diff --git ' line gains
\* the header 'diff --git a/<old> b/<new>' of the two marker paths with
\* their a/ and b/ stripped, then the mode line of a /dev/null side, then
\* its own lines; any other patch is returned unchanged
C19_HeaderFromMarkers ==
  call.fn = "ensureDiffGitHeader" =>
    LET patch == call.arg
        old == patch[C19_Old(patch)].path
        new == patch[C19_New(patch)].path
    IN IF C19_Unchanged(patch) THEN ret = patch
       ELSE ret = <<GitLine(Strip("a/", old), Strip("b/", new))>>
                    \o C19_Mode(old, new) \o patch

\* C19 amended: a side that is /dev/null takes the path of the other side
\* in the header
C19_HeaderOtherSideForDevNull ==
  call.fn = "ensureDiffGitHeader" =>
    LET patch == call.arg
        old == patch[C19_Old(patch)].path
        new == patch[C19_New(patch)].path
        a == IF old = DevNull THEN Strip("b/", new) ELSE Strip("a/", old)
        b == IF new = DevNull THEN Strip("a/", old) ELSE Strip("b/", new)
    IN IF C19_Unchanged(patch) THEN ret = patch
       ELSE ret = <<GitLine(a, b)>> \o C19_Mode(old, new) \o patch

\* the header of '--- /dev/null' / '+++ b/f2' was synthesised
C19_Witness ==
  /\ call.fn = "ensureDiffGitHeader"
  /\ call.arg = Headless(DevNull, P("b/", "f2"))
  /\ ret = <<GitLine(P("", "f2"), P("", "f2")), NewMode>> \o call.arg

\* the payload of a line that starts with '+': an added line "+x" or a
\* line "+++ <path>"
C20_Payload(l) == IF l.k = "add" THEN l.arg ELSE "++ <path>"

\* the lines that start with '+' after the first hunk marker
C20_Added(patch) ==
  LET hunk == FirstIndex([k \in 1..Len(patch) |-> patch[k].k = "hunk"])
  IN SelectSeq(SubSeq(patch, hunk + 1, Len(patch)),
               LAMBDA l : l.k \in {"add", "new"})

\* C20: for a new-file patch extractNewFileContentFromPatch returns the
\* payload of every added line after the first hunk marker, in order; no
\* added line is dropped, whatever its content
C20_EveryAddedLine ==
  call.fn = "extractNewFileContentFromPatch" /\ isNewFilePatch(call.arg) =>
    /\ Len(ret) = Len(C20_Added(call.arg))
    /\ \A k \in 1..Len(ret) : ret[k] = C20_Payload(C20_Added(call.arg)[k])

\* C21: every file a step writes or reads (new-file body, non-diff
\* response, missing-file creation, whole-file replace, regeneration read)
\* lies inside the repository working tree, for every file path a response
\* or the prompt can hold
C21_InsideWorkingTree ==
  call.fn = "pathJoin" =>
    Len(ret) > Len(RepoRoot) /\ StartsWith(ret, RepoRoot)

\* C22: every file body written directly (new-file short-circuit, non-diff
\* response, missing-file creation, whole-file replace) ends with exactly
\* one trailing newline
C22_BodyOneTrailingNewline ==
  call.fn = "writeFile" =>
    /\ Len(ret) >= 2
    /\ Last(ret) = Blank
    /\ ret[Len(ret) - 1] # Blank

\* C23: after a plan step has created a file in the working tree, the
\* context rebuilt for the next step lists that file
C23_ContextListsCreated ==
  pc = "step" /\ i >= 2 =>
    \A f \in Files :
      tree[f].st = "written" /\ tree[f].by \in 1..(i - 1)
        => f \in contextText.files

\* the entries of a response whose title and instruction hold something
\* other than white space
C24_Valid(raw) ==
  { k \in 1..Len(raw.items) :
      /\ \E n \in 1..Len(raw.items[k].title) : raw.items[k].title[n] # " "
      /\ \E n \in 1..Len(raw.items[k].instruction) :
           raw.items[k].instruction[n] # " " }

\* C24: the plan admitted to execution holds exactly the entries of the
\* response whose title and instruction are non-empty after trimming, in
\* their order, none twice; when none is left, or the response is no JSON
\* array, the plan is the fatal error and no plan is returned
C24_ValidStepsInOrder ==
  call.fn = "generatePlanWithClaude" =>
    LET raw == call.arg
        valid == IF raw.array THEN C24_Valid(raw) ELSE {}
        \* at(j) is the j-th valid entry
        at(j) == CHOOSE k \in valid :
                   Cardinality({m \in valid : m < k}) = j - 1
    IN IF valid = {}
       THEN ret.err = PlanError /\ ret.plan = <<>>
       ELSE /\ ret.err = NoError
            /\ Len(ret.plan) = Cardinality(valid)
            /\ \A j \in 1..Len(ret.plan) :
                 /\ ret.plan[j].title = TrimStr(raw.items[at(j)].title)
                 /\ ret.plan[j].instruction =
                      TrimStr(raw.items[at(j)].instruction)
                 /\ ret.plan[j].title # <<>>
                 /\ ret.plan[j].instruction # <<>>

\* a plan was admitted from a response whose first entry lacks its
\* instruction; a response with no valid entry was refused
C24_Witness ==
  /\ call.fn = "generatePlanWithClaude"
  /\ Len(call.arg.items) = 2
  /\ call.arg.items[1].instruction = <<" ">>
  /\ ret.err = NoError
  /\ Len(ret.plan) = 1
  /\ ret.plan[1].title = <<"b">>

\* what has happened implies what comes before it in the order of a run
C25_Stage ==
  /\ prCreated => pushed
  /\ pushed => committed
  /\ committed => branch /\ executionTier # "" /\ cpc = "idle"
  /\ cpc # "idle" => branch /\ executionTier # "" /\ ~committed
  /\ executionTier # "" => branch
  /\ branch => pc # "clean"
  /\ pc = "branch" => ~branch

C25_Step ==
  /\ branch' # branch => pc = "branch"
  /\ executionTier' # executionTier => pc = "context" /\ branch
  /\ tree' # tree \/ artifact' # artifact =>
       /\ pc \in {"singleWait", "stepWait"}
       /\ branch /\ executionTier # "" /\ ~committed
  \* every plan step but the last is followed by the next only when it
  \* succeeded, and the commit follows only a success
  /\ pc = "stepWait" /\ pc' = "step" => cpc = "returned" /\ i' = i + 1
  /\ pc' = "summary" /\ pc # "summary" =>
       /\ cpc = "returned"
       /\ pc = "singleWait" \/ (pc = "stepWait" /\ i = planLen)
  /\ committed' # committed => pc = "summary" /\ tree' = tree
  /\ pushed' # pushed => pc = "push" /\ committed
  /\ prCreated' # prCreated => pc = "pr" /\ pushed

\* C25: the effects of a run occur in the order clean check, branch
\* creation, context build and tier decision, working-tree mutation,
\* commit, push, pull request; the commit only after the single-shot
\* attempt or every plan step succeeded, the push only after the commit,
\* the pull request only after the push
C25_EffectOrder ==
  /\ []C25_Stage
  /\ [][C25_Step]_vars

\* a run of a two-step plan ended with its pull request
C25_Witness ==
  pc = "done" /\ prCreated /\ planLen = 2 /\ tree["f2"].st = "written"

\* run r has passed the clean check and has not ended
C26_Mutating(r) ==
  runPc[r] \in {"branch", "generate", "artifact", "apply", "commit"}

\* C26: of two runs started against one working tree, one while the other
\* is in progress, never both pass the clean check and write the same
\* patch artifact path or the same working tree
C26_OneRunMutates ==
  \A r1, r2 \in RunIds :
    r1 # r2 /\ C26_Mutating(r1) /\ C26_Mutating(r2) =>
      wrote[r1] \cap wrote[r2] = {}

C27_Ended == pollPc \in {"returned", "threw"}

\* the loop leaves at once on a token and on an error that does not ask
\* the caller to keep polling, and a token request is issued only before the deadline
C27_Step ==
  /\ pollPc = "request" /\ response' = "access_token" =>
       pollPc' = "returned" /\ pollResult' = "token"
  /\ pollPc = "request" /\ response' = "expired_token" =>
       /\ pollPc' = "threw"
       /\ pollResult' = "GitHub device code expired. Please try again."
  /\ pollPc = "request" /\ response' = "access_denied" =>
       pollPc' = "threw" /\ pollResult' = "GitHub access denied."
  /\ pollPc = "request" /\ response' = "bad_verification_code" =>
       pollPc' = "threw" /\ pollResult' = "GitHub login failed"
  /\ pollPc' = "request" /\ pollPc # "request" => now < deadline
  /\ pollPc' = "threw" /\ pollPc = "check" =>
       pollResult' = "GitHub login timed out." /\ now >= deadline
  /\ pollPc' = "returned" => response' = "access_token"
  /\ C27_Ended => UNCHANGED pvars

\* C27: pollForGithubToken always terminates: with the token as soon as a
\* response carries one, with an error at once on expired_token,
\* access_denied or any other error that is not pending, and else with
\* 'GitHub login timed out'; no token request is issued after the deadline
C27_PollTerminates ==
  /\ [][C27_Step]_vars
  /\ <>C27_Ended
  /\ [](deadline # 0 => deadline = PollDeadline)

C28_Step ==
  /\ pollPc # "idle" => interval' >= interval
  /\ pollPc = "request" /\ response' = "slow_down" =>
       interval' = interval + 5
  /\ pollPc = "request" /\ response' # "slow_down" => interval' = interval
  /\ pollPc # "request" /\ pollPc # "idle" => interval' = interval
  \* a token request that is not the first follows a wait of the interval
  /\ pollPc' = "request" /\ pollPc # "request" /\ response # "" =>
       now >= respondedAt + interval
  /\ pollPc = "request" /\ pollPc' = "request" => FALSE

\* C28: the poll interval is never below 5 seconds, never decreases, grows
\* by exactly 5 seconds on each slow_down response and is unchanged by
\* authorization_pending and error-less responses; consecutive token
\* requests are separated by a wait of the current interval
C28_IntervalGrows ==
  /\ [](pollPc # "idle" => interval >= 5)
  /\ [][C28_Step]_vars

\* a request was issued after two slow_down responses to a poll that
\* started with the interval 7
C28_Witness ==
  pollPc = "request" /\ interval = 17 /\ response = "slow_down"

C29_Ended == pc \in {"done", "failed"}

\* one plan generation, every step index entered once and in order, every
\* call site of the cascade passed once, nothing after the end
C29_Once ==
  /\ planCalls' # planCalls => planCalls = 0 /\ planCalls' = 1
  /\ i' # i => i' = i + 1 \/ (pc' = "failed" /\ i' = i)
  /\ pc' = "step" => i' = i + 1 /\ i' <= planLen'
  /\ pc' = "stepWait" /\ pc = "step" => hist' = <<>> /\ genCalls' = 0
  /\ hist' # hist /\ hist' # <<>> =>
       /\ Len(hist') = Len(hist) + 1
       /\ ~Has(Last(hist'))
  /\ pc' = "single" => pc = "context"
  /\ C29_Ended => UNCHANGED vars

\* the model is asked for the body of a missing file once in a step
C29_CreationOnce ==
  cpc = "create" /\ genCalls' = genCalls + 1 => ~Has("createEarly")

\* C29 as stated: every run ends Done or Failed when every collaborator
\* call returns or fails, and no step, strategy or plan generation is
\* repeated within a run
C29_NothingRepeated ==
  <>C29_Ended /\ [][C29_Once /\ C29_CreationOnce]_vars

\* C29, amended: every run ends Done or Failed when every collaborator call
\* returns or fails; the plan is generated at most once, every plan step is
\* run at most once and in order, and every call site of the cascade is
\* passed at most once in a step (the missing-file creation fallback has two
\* call sites, so a step can ask for the body of a missing file twice)
C29_Terminates == <>C29_Ended /\ [][C29_Once]_vars

\* a TIER_1 run whose single-shot attempt failed generated its plan once,
\* ran every step of it and ended Done
C29_Witness ==
  /\ pc = "done" /\ executionTier = "TIER_1" /\ planCalls = 1
  /\ planLen >= 1 /\ i = planLen + 1

\* the generation calls of this cascade that asked for the body of a
\* missing file, counted before the replace fallback has asked
C30_CreationCalls == genCalls - 1 - (IF Has("regen") THEN 1 ELSE 0)

C30_Asks == genCalls' = genCalls + 1

C30_Step ==
  /\ cpc \in {"written", "create"} /\ C30_Asks =>
       /\ fallbackFilePath # NoPath
       /\ ~Exists(tree, fallbackFilePath)
       /\ ~Has("replace")
  /\ cpc = "replace" /\ C30_Asks =>
       /\ fallbackFilePath # NoPath
       /\ Exists(tree, fallbackFilePath)
       /\ C30_CreationCalls = 0
  /\ cpc = "regen" /\ C30_Asks =>
       /\ fallbackFilePath # NoPath
       /\ Exists(tree, fallbackFilePath)
       /\ ~Has("regen")
  /\ genCalls' # genCalls /\ genCalls' # 0 =>
       C30_Asks /\ cpc \in {"generate", "written", "regen", "create", "replace"}

\* C30: in one execution of the cascade the creation fallback and the
\* replace fallback never both ask the model (creation asks only when the
\* target file does not exist, replace only when it exists), regeneration
\* is requested at most once and only when the target file is readable,
\* and the step makes at most three generation calls
C30_FallbacksExclusive == [](genCalls <= 3) /\ [][C30_Step]_vars

\* a step that made three generation calls: the patch, the regenerated
\* patch and the replacement body
C30_Witness ==
  /\ cpc = "returned" /\ outcome = "replaced" /\ genCalls = 3
  /\ Has("regen") /\ Has("create")

\* C31: a step that fails with the terminal failure of the cascade or with
\* the non-diff error has left every file of the working tree as it was
\* when the step began, its own patch artifact apart
C31_FailedStepLeavesTree ==
  cpc = "threw" /\ cerr.msg \in {NotAPatch.msg, InvalidPatch(0, <<>>, <<>>).msg}
    => tree = tree0

\* C32: when a run has committed, no patch artifact file exists in the
\* working tree, also after a failed single-shot attempt followed by a
\* completed plan
C32_NoArtifactCommitted ==
  committed => \A l \in Labels : artifact[l] = NoFile

\* the file paths a prompt names: its maximal runs of path characters that
\* end in a dot and a known source extension
C33_Named(p) ==
  LET runs == Runs(p, PathChars, <<>>)
      Known(r) ==
        \E x \in 1..Len(Extensions) :
          LET ext == Extensions[x] IN
            /\ Len(r) > Len(ext) + 1
            /\ SubSeq(r, Len(r) - Len(ext), Len(r)) = <<".">> \o ext
      named == {k \in 1..Len(runs) : Known(runs[k])}
  IN IF named = {} THEN Null ELSE runs[SetMin(named)]

\* C33: a non-empty response that is not a unified diff is written exactly
\* when the step prompt names a file path with a known source extension,
\* and then to the first such path, as the fence-stripped trimmed response
C33_NonDiffWrite ==
  call.fn = "writeFileFromNonPatchResponse" =>
    LET named == C33_Named(call.arg.prompt) IN
      /\ ret.wrote = (named # Null)
      /\ ret.wrote => ret.target = named
      /\ ret.wrote =>
           ret.body = Append(TrimText(stripCodeFences(call.arg.text)), Blank)

C34_Alive == {p \in Callers : proc[p] = "alive"}

\* C34: at most one sidecar process started by startQdrant is alive at any
\* time, a start that finds a live handle spawns nothing, and every process
\* that is alive is the one the module's handle refers to
C34_OneSidecar ==
  /\ Cardinality(C34_Alive) <= 1
  /\ \A p \in C34_Alive : qdrantProcess = p

\* C35: getQdrantStatus is 'running' exactly when the most recently
\* spawned process has neither exited (its 'exit' event delivered) nor been
\* stopped; the exit of an earlier process does not make it 'stopped'
C35_StatusOfLatest ==
  LET spawned == {p \in Callers : proc[p] # "none"} IN
  (getQdrantStatus = "running") =
    (spawned # {} /\ proc[SetMax(spawned)] \in {"alive", "ending"})

C36_Pending == {d \in Callers : download[d] = "pending"}

C36_Step ==
  \A c \in Callers :
    ensurePc[c] = "idle" /\ ensurePc'[c] # "idle" =>
      \* a call made during a download receives that download
      /\ C36_Pending # {} =>
           got'[c] \in C36_Pending /\ download' = download
      \* a call made when no download is in flight and the guard is clear
      \* starts a new one
      /\ downloadPromise = 0 => download'[got'[c]] = "pending"

\* C36: at most one download is in flight at any time; a call made while
\* one is in progress receives that download and starts no other; the guard
\* is clear once the download has settled and its caller has resumed
C36_OneDownload ==
  /\ [](Cardinality(C36_Pending) <= 1)
  /\ [](\A d \in C36_Pending : downloadPromise = d)
  /\ []((\A c \in Callers : ensurePc[c] \in {"idle", "done"})
          => downloadPromise = 0)
  /\ [][C36_Step]_vars

\* a call made while a download is pending has joined it
C36_Witness ==
  \E c \in Callers :
    /\ ensurePc[c] = "joined" /\ download[got[c]] = "pending"
    /\ \E o \in Callers : ensurePc[o] = "owner" /\ got[o] = got[c]

\* the requirements in their fixed order, each with what meets it
C37_Order ==
  << [step |-> "indexing", met |-> "hasIndexer"],
     [step |-> "apiKey", met |-> "hasApiKey"],
     [step |-> "github", met |-> "hasGithub"],
     [step |-> "repo", met |-> "hasRepo"],
     [step |-> "baseBranch", met |-> "hasBaseBranch"] >>

C37_FirstUnmet(has) ==
  LET unmet == {k \in 1..Len(C37_Order) : ~has[C37_Order[k].met]}
  IN IF unmet = {} THEN "ready" ELSE C37_Order[SetMin(unmet)].step

\* C37: isReady holds exactly when currentStep is 'ready', currentStep is
\* the first unmet requirement in the order indexing, apiKey, github, repo,
\* baseBranch, and a 'prompt' message starts a run only when the status is
\* ready
C37_ReadyGatesRun ==
  call.fn = "onPromptMessage" =>
    /\ ret.status.isReady = (ret.status.currentStep = "ready")
    /\ ret.status.currentStep = C37_FirstUnmet(call.arg.has)
    /\ ret.does = "runGeneratePrompt" => ret.status.isReady
    /\ ret.status.currentStep # "ready" => ret.does # "runGeneratePrompt"
    /\ ret.status.isReady /\ call.arg.text # <<>> =>
         ret.does = "runGeneratePrompt"

\* a 'prompt' message with a task text started a run in the ready status
C37_Witness ==
  /\ call.fn = "onPromptMessage" /\ ret.does = "runGeneratePrompt"
  /\ ret.status.currentStep = "ready"

C38_Rank(tier) ==
  CASE tier = "TIER_1" -> 1 [] tier = "TIER_2" -> 2 [] tier = "TIER_3" -> 3

C38_Inputs ==
  [len : PromptLengths, count : RequestedCounts, scope : BOOLEAN,
   size : ContextLengths]

C38_Tier(x) ==
  classifyTaskSizing(Prompt(x.len, x.count, x.scope, NoPath), x.size)

\* no input at least as large in every component has a lower tier
C38_Monotone ==
  \A a \in C38_Inputs, b \in C38_Inputs :
    /\ a.len <= b.len /\ a.count <= b.count /\ a.size <= b.size
    /\ a.scope => b.scope
    => C38_Rank(C38_Tier(a)) <= C38_Rank(C38_Tier(b))

\* C38: raising the prompt length, the context size or the extracted
\* count, or adding a scope keyword, never lowers the tier (tested where
\* the run is about to classify); the tier is computed once in a run and
\* the step cap of the run follows from it
C38_TierMonotoneAndFixed ==
  /\ [](pc = "context" => C38_Monotone)
  /\ [][executionTier' # executionTier =>
          executionTier = "" /\ pc = "context"]_vars
  /\ [](maxSteps # 0 =>
          maxSteps = IF executionTier = "TIER_3" THEN 8 ELSE 4)
  /\ [](pc \in {"plan", "step", "stepWait"} => maxSteps # 0)

\* a TIER_3 run is in its plan with the step cap 8
C38_Witness ==
  pc = "stepWait" /\ executionTier = "TIER_3" /\ maxSteps = 8 /\ i = 2

C39_Tens == {20, 30, 40, 50}

\* the words of a text that are two number words joined by a hyphen
C39_Pairs(text) ==
  LET words == Runs(text, LowerLetters \cup {"-"}, <<>>) IN
  {k \in 1..Len(words) :
     /\ \E n \in 1..Len(words[k]) : words[k][n] = "-"
     /\ MapGet(SplitHyphen(words[k])[1]) # 0
     /\ MapGet(SplitHyphen(words[k])[2]) # 0}

\* C39: a hyphenated pair of number words contributes the sum of its parts
\* exactly when the first part is a tens-word (twenty, thirty, forty,
\* fifty) and the second a units-word below 10
C39_OnlyTensCompounds ==
  call.fn = "extractRequestedCount" =>
    LET words == Runs(call.arg.text, LowerLetters \cup {"-"}, <<>>) IN
    \A k \in C39_Pairs(call.arg.text) :
      LET base == MapGet(SplitHyphen(words[k])[1])
          next == MapGet(SplitHyphen(words[k])[2])
      IN (WordValue(words, k) = base + next /\ ret >= base + next)
           = (base \in C39_Tens /\ next < 10)

\* the value of the first number word at the least distance from token, 0
\* when that distance is over 2
C40_Closest(token) ==
  LET distance == [k \in 1..Len(NumberWords) |->
                     levenshteinDistance(token, NumberWords[k].word)]
      near == {k \in 1..Len(NumberWords) :
                 \A j \in 1..Len(NumberWords) : distance[k] <= distance[j]}
      first == CHOOSE k \in near : \A j \in near : k <= j
  IN IF distance[first] <= 2 THEN NumberWords[first].value ELSE 0

\* C40: a token that is not a number word counts as the first number word
\* at the least edit distance when that distance is at most 2, followed by
\* a units-word as that word would be, and counts for nothing when every
\* number word is farther; the result is the largest of the literal
\* integers and of what the words count for
C40_FuzzyAndMaximum ==
  call.fn = "extractRequestedCount" =>
    LET words == Words(call.arg.text)
        after(k) == IF k + 1 <= Len(words) THEN MapGet(words[k + 1]) ELSE 0
        fuzzy(k) ==
          LET value == C40_Closest(words[k]) IN
          IF value \in C39_Tens /\ after(k) \in 1..9 THEN value + after(k)
          ELSE value
    IN /\ \A k \in 1..Len(words) :
            MapGet(words[k]) = 0 /\ k \notin C39_Pairs(call.arg.text)
              => WordValue(words, k) = fuzzy(k)
       /\ ret = SetMax({Number(value) : value \in Matches(call.arg.text)}
                       \cup {WordValue(words, k) : k \in 1..Len(words)})

====
